---- MODULE Spec2Model ----
(***************************************************************************)
(* Graph engine core of graph-note: the SQLite transaction coordinator     *)
(* (SQLiteGraphDB.transaction and the direct begin/commit/rollback         *)
(* methods) and the entity repository of BaseGraphDB (nodes, relationships *)
(* and the structured-relationship encoding).                              *)
(*                                                                         *)
(* Granularity: one step is the code between two awaits on the connection; *)
(* a connection call and the assignment that follows its await are one     *)
(* step.  The relational engine itself is taken as correct: BEGIN takes a  *)
(* snapshot, ROLLBACK restores it, COMMIT/ROLLBACK with no transaction     *)
(* active fail with "no transaction is active".                            *)
(*                                                                         *)
(* The repository operations are operators from the tables to a result;    *)
(* SpecLabel and SpecGraph run each public operation as one step, on an    *)
(* engine whose transaction() begins, runs the operation and commits or    *)
(* rolls back.  Foreign keys are not enforced (the code relies on none),   *)
(* uuids are drawn from a counter and never reused.                        *)
(***************************************************************************)
EXTENDS Integers, Sequences, FiniteSets, TLC

\* Number of top-level transaction() submissions explored.
MaxCalls == 2

VARIABLES
  calls,            \* every transaction() invocation, in submission order
  transactionQueue, \* index in calls of the promise the next call chains on (0: Promise.resolve())
  isInTransaction,  \* SQLiteGraphDB.isInTransaction
  connTxActive,     \* connection.isTransactionActive()
  store,            \* rows visible on the connection (write tokens)
  snapshot,         \* the connection's rollback image, taken at BEGIN
  clearPc,          \* position of a caller running BaseGraphDB.clear()
  db,               \* the tables behind BaseGraphDB.db, and the ids uuidv4() has handed out
  lifecycle         \* BaseGraphDB.initialized, the engine held, and the callers of initialize()

\* what the operations of the entity repository leave alone
txVars ==
  <<calls, transactionQueue, isInTransaction, connTxActive, store, snapshot, clearPc, lifecycle>>

vars ==
  <<calls, transactionQueue, isInTransaction, connTxActive, store, snapshot, clearPc, db, lifecycle>>

-----------------------------------------------------------------------------
(* Errors: the class of the error and the class of the error it wraps.     *)

NoError == [kind |-> "none", cause |-> "none"]

MkError(kind, cause) == [kind |-> kind, cause |-> cause]

\* catch (error) { this.isInTransaction = false; throw new DatabaseError(`Transaction failed: ...`, error) }
\* A catch that would rethrow the error as it is.
Rethrow(e) == e

WrapTransactionFailure(e) == MkError("DatabaseError", e.kind)

-----------------------------------------------------------------------------
(* Operation bodies handed to transaction(): the sequence of awaited       *)
(* steps of the callback.                                                  *)

OpKinds == {"addNode", "failing", "deleteNode", "createStructuredRelationship"}

Program(op) ==
  CASE op = "addNode" -> <<"run">>
    [] op = "addEdge" -> <<"run">>
    [] op = "failing" -> <<"run", "run", "throw">>
    [] op = "deleteNode" -> <<"throwNotFound">>
    [] op = "createStructuredRelationship" ->
         <<"query", "query", "transaction", "transaction", "transaction">>

\* The operation a nested this.db.transaction() call of createStructuredRelationship runs.
NestedOp(ip) == IF ip = 3 THEN "addNode" ELSE "addEdge"

ThrownKind(step) == IF step = "throwNotFound" THEN "NodeNotFoundError" ELSE "Error"

CallIds == 1..Len(calls)

TopLevelCalls == {i \in CallIds : calls[i].parent = 0}

\* No transaction() call is outstanding and no transaction is open.
Idle ==
  /\ ~isInTransaction
  /\ clearPc = "idle"
  /\ \A i \in CallIds : calls[i].outcome = "fulfilled"

NewCall(op, parent) ==
  [op |-> op, parent |-> parent, pred |-> transactionQueue,
   pc |-> "queued", ip |-> 1, path |-> "none", child |-> 0,
   wrote |-> FALSE, threw |-> "none", rollback |-> "none", commit |-> "none",
   outcome |-> "pending", err |-> NoError, persisted |-> 0,
   idleAtSubmit |-> Idle, pre |-> {}, post |-> {}]

\* this.transactionQueue.then(cb): cb runs once the promise chained on is fulfilled ...
\* A callback that would not wait for the promise it is chained on.
StartsAtOnce(c) == TRUE

\* A callback that would wait only for its predecessor to start.
StartsOncePredStarted(c) ==
  IF c.pred = 0 THEN TRUE ELSE calls[c.pred].pc # "queued"

PredFulfilled(c) == IF c.pred = 0 THEN TRUE ELSE calls[c.pred].outcome = "fulfilled"

\* ... and is skipped, the rejection passing through, when it is rejected.
PredRejected(c) == IF c.pred = 0 THEN FALSE ELSE calls[c.pred].outcome = "rejected"

-----------------------------------------------------------------------------
(* SQLiteGraphDB.transaction                                               *)

\* return (this.transactionQueue = this.transactionQueue.then(async () => {...}))
Submit(op) ==
  /\ Cardinality(TopLevelCalls) < MaxCalls
  /\ calls' = Append(calls, NewCall(op, 0))
  /\ transactionQueue' = Len(calls) + 1
  /\ UNCHANGED <<isInTransaction, connTxActive, store, snapshot, clearPc>>

\* The callback starts: if (this.isInTransaction) run directly, else BEGIN.
Start(i) ==
  /\ calls[i].pc = "queued"
  /\ PredFulfilled(calls[i])
  /\ IF isInTransaction
       THEN /\ calls' = [calls EXCEPT ![i].pc = "body", ![i].path = "direct", ![i].pre = store]
            /\ UNCHANGED <<isInTransaction, connTxActive, snapshot>>
       ELSE IF connTxActive
         THEN \* BEGIN inside a transaction fails; outer catch
              /\ calls' = [calls EXCEPT ![i].pc = "done", ![i].path = "top",
                                        ![i].outcome = "rejected",
                                        ![i].err = WrapTransactionFailure(MkError("EngineError", "none")),
                                        ![i].pre = store, ![i].post = store]
              /\ UNCHANGED <<isInTransaction, connTxActive, snapshot>>
         ELSE /\ connTxActive' = TRUE
              /\ snapshot' = store
              /\ isInTransaction' = TRUE
              /\ calls' = [calls EXCEPT ![i].pc = "body", ![i].path = "top", ![i].pre = store]
  /\ UNCHANGED <<transactionQueue, store, clearPc>>

\* A callback chained on a rejected promise never runs: the rejection passes through.
Propagate(i) ==
  /\ calls[i].pc = "queued"
  /\ PredRejected(calls[i])
  /\ calls' = [calls EXCEPT ![i].pc = "done", ![i].outcome = "rejected",
                            ![i].err = calls[calls[i].pred].err,
                            ![i].pre = store, ![i].post = store]
  /\ UNCHANGED <<transactionQueue, isInTransaction, connTxActive, store, snapshot, clearPc>>

\* operation() throws error kind k in call i.
BodyThrows(i, k) ==
  IF calls[i].path = "direct"
    THEN \* return await operation(): outside the try, the error passes as it is
         /\ calls' = [calls EXCEPT ![i].pc = "done", ![i].threw = k,
                                   ![i].outcome = "rejected", ![i].err = MkError(k, "none"),
                                   ![i].post = store]
         /\ UNCHANGED <<isInTransaction, connTxActive, store>>
    ELSE IF connTxActive
      THEN \* await this.connection.rollbackTransaction(); this.isInTransaction = false; throw error
           /\ store' = snapshot
           /\ connTxActive' = FALSE
           /\ isInTransaction' = FALSE
           /\ calls' = [calls EXCEPT ![i].pc = "done", ![i].threw = k, ![i].rollback = "ok",
                                     ![i].outcome = "rejected",
                                     ![i].err = WrapTransactionFailure(MkError(k, "none")),
                                     ![i].post = snapshot]
      ELSE \* the rollback itself fails: its error reaches the outer catch
           /\ isInTransaction' = FALSE
           /\ calls' = [calls EXCEPT ![i].pc = "done", ![i].threw = k, ![i].rollback = "failed",
                                     ![i].outcome = "rejected",
                                     ![i].err = WrapTransactionFailure(MkError("EngineError", "none")),
                                     ![i].post = store]
           /\ UNCHANGED <<connTxActive, store>>

\* One awaited step of operation().
BodyStep(i) ==
  /\ calls[i].pc \in {"body", "await"}
  /\ calls[i].ip <= Len(Program(calls[i].op))
  /\ LET c == calls[i]
         step == Program(c.op)[c.ip]
     IN IF c.pc = "await"
          THEN \* await this.addNode(...) / this.addEdge(...): resumes when the nested call settles
               /\ calls[c.child].outcome # "pending"
               /\ IF calls[c.child].outcome = "fulfilled"
                    THEN /\ calls' = [calls EXCEPT ![i].pc = "body", ![i].ip = c.ip + 1]
                         /\ UNCHANGED <<isInTransaction, connTxActive, store>>
                    ELSE BodyThrows(i, calls[c.child].err.kind)
               /\ UNCHANGED transactionQueue
          ELSE CASE step = "run" ->
                      /\ store' = store \cup {<<i, c.ip>>}
                      /\ calls' = [calls EXCEPT ![i].ip = c.ip + 1, ![i].wrote = TRUE]
                      /\ UNCHANGED <<transactionQueue, isInTransaction, connTxActive>>
                 [] step = "query" ->
                      /\ calls' = [calls EXCEPT ![i].ip = c.ip + 1]
                      /\ UNCHANGED <<transactionQueue, isInTransaction, connTxActive, store>>
                 [] step = "transaction" ->
                      \* a nested this.db.transaction(): chained on the queue like any other
                      /\ calls' = Append([calls EXCEPT ![i].pc = "await", ![i].child = Len(calls) + 1],
                                         NewCall(NestedOp(c.ip), i))
                      /\ transactionQueue' = Len(calls) + 1
                      /\ UNCHANGED <<isInTransaction, connTxActive, store>>
                 [] OTHER ->
                      /\ BodyThrows(i, ThrownKind(step))
                      /\ UNCHANGED transactionQueue
  /\ UNCHANGED <<snapshot, clearPc>>

\* a coordinator that would return without calling the persistence hook
PersistDataSkipped(runs) == runs

\* await this.persistData(): one more run of the persistence hook
PersistData(runs) == runs + 1

\* operation() returned: COMMIT, reset the flag, persistData(), resolve.
Finish(i, persistOk) ==
  /\ calls[i].pc = "body"
  /\ calls[i].ip > Len(Program(calls[i].op))
  /\ IF calls[i].path = "direct"
       THEN /\ persistOk
            /\ calls' = [calls EXCEPT ![i].pc = "done", ![i].outcome = "fulfilled", ![i].post = store]
            /\ UNCHANGED <<isInTransaction, connTxActive>>
       ELSE /\ connTxActive' = FALSE
            /\ isInTransaction' = FALSE
            /\ calls' = [calls EXCEPT
                 ![i].pc = "done",
                 \* 'no transaction is active' is logged and ignored
                 ![i].commit = IF connTxActive THEN "ok" ELSE "noTx",
                 ![i].outcome = IF persistOk THEN "fulfilled" ELSE "rejected",
                 ![i].err = IF persistOk THEN NoError
                            ELSE WrapTransactionFailure(MkError("DatabaseError", "none")),
                 ![i].persisted = PersistData(@),
                 ![i].post = store]
  /\ UNCHANGED <<transactionQueue, store, snapshot, clearPc>>

\* operation() returned and the connection's COMMIT throws an error other than
\* 'no transaction is active': it is rethrown to the outer catch, which resets
\* the flag and rejects; persistData() is not reached.  The engine either
\* keeps the transaction open (stillActive) or has rolled it back.
CommitFails(i, stillActive) ==
  /\ calls[i].pc = "body"
  /\ calls[i].ip > Len(Program(calls[i].op))
  /\ calls[i].path = "top"
  /\ connTxActive
  /\ isInTransaction' = FALSE
  /\ IF stillActive
       THEN UNCHANGED <<connTxActive, store>>
       ELSE connTxActive' = FALSE /\ store' = snapshot
  /\ calls' = [calls EXCEPT
       ![i].pc = "done", ![i].commit = "failed", ![i].outcome = "rejected",
       ![i].err = WrapTransactionFailure(MkError("EngineError", "none")),
       ![i].post = IF stillActive THEN store ELSE snapshot]
  /\ UNCHANGED <<transactionQueue, snapshot, clearPc>>

-----------------------------------------------------------------------------
(* BaseGraphDB.clear(): begins, commits and rolls back through the direct  *)
(* methods of SQLiteGraphDB, not through the queue.                        *)

\* SQLiteGraphDB.rollbackTransaction, as called from a catch block
DirectRollback ==
  IF isInTransaction /\ connTxActive
    THEN /\ store' = snapshot
         /\ connTxActive' = FALSE
         /\ isInTransaction' = FALSE
    ELSE \* "No transaction in progress" / the engine's rollback fails: nothing changes
         UNCHANGED <<store, connTxActive, isInTransaction>>

ClearBegin ==
  /\ clearPc = "idle"
  /\ IF isInTransaction
       THEN \* "Transaction already started" -> catch -> db.rollbackTransaction() -> rethrow
            /\ DirectRollback
            /\ UNCHANGED <<snapshot, clearPc>>
       ELSE /\ connTxActive' = TRUE
            /\ snapshot' = store
            /\ isInTransaction' = TRUE
            /\ clearPc' = "begun"
            /\ UNCHANGED store
  /\ UNCHANGED <<calls, transactionQueue>>

ClearDelete ==
  /\ clearPc = "begun"
  /\ store' = {}
  /\ clearPc' = "deleted"
  /\ UNCHANGED <<calls, transactionQueue, isInTransaction, connTxActive, snapshot>>

ClearCommit ==
  /\ clearPc = "deleted"
  /\ clearPc' = "idle"
  /\ IF isInTransaction /\ connTxActive
       THEN /\ connTxActive' = FALSE
            /\ isInTransaction' = FALSE
            /\ UNCHANGED store
       ELSE \* commitTransaction throws -> catch -> db.rollbackTransaction()
            DirectRollback
  /\ UNCHANGED <<calls, transactionQueue, snapshot>>

-----------------------------------------------------------------------------

InitTx ==
  /\ calls = <<>>
  /\ transactionQueue = 0
  /\ isInTransaction = FALSE
  /\ connTxActive = FALSE
  /\ store = {}
  /\ snapshot = {}
  /\ clearPc = "idle"

\* Steps the event loop runs by itself once they are enabled.
ProgramStep ==
  \/ \E i \in CallIds : Start(i)
  \/ \E i \in CallIds : Propagate(i)
  \/ \E i \in CallIds : BodyStep(i)
  \/ \E i \in CallIds : \E persistOk \in BOOLEAN : Finish(i, persistOk)
  \/ \E i \in CallIds : \E stillActive \in BOOLEAN : CommitFails(i, stillActive)
  \/ ClearDelete
  \/ ClearCommit

NextTx ==
  \/ \E op \in OpKinds : Submit(op) /\ UNCHANGED <<db, lifecycle>>
  \/ ClearBegin /\ UNCHANGED <<db, lifecycle>>
  \/ ProgramStep /\ UNCHANGED <<db, lifecycle>>

-----------------------------------------------------------------------------
(* The entity repository (BaseGraphDB).  db holds the four tables; an      *)
(* operation is an operator from a db to a result [db, err, value], so     *)
(* that operations that call one another compose as in the code.           *)

\* Ids uuidv4() can hand out for nodes and for relationships.
MaxNodeIds == 3
MaxEdgeIds == 3

RELATIONSHIP_TYPE == "RELATIONSHIP_TYPE"
RELAY == "_relay"

\* A source_id / target_id that is NULL.
NULL == 0

\* Relationship ids are uuids too, and never equal to a node id.
EdgeIdBase == 100

\* An optional argument: undefined, or a given value.
None == <<>>
Some(x) == <<x>>

\* JSON.stringify(value), as stored in the value column
Stringify(v) == <<"json", v>>

InitDb ==
  [nodes |-> <<>>, relationships |-> <<>>,
   node_properties |-> {}, relationship_properties |-> {},
   nextNodeId |-> 1, nextEdgeId |-> EdgeIdBase + 1]

Put(f, k, v) == [x \in DOMAIN f \cup {k} |-> IF x = k THEN v ELSE f[x]]

Remove(f, K) == [x \in DOMAIN f \ K |-> f[x]]

Ok(D, v) == [db |-> D, err |-> "none", value |-> v]

Fail(D, kind) == [db |-> D, err |-> kind, value |-> 0]

NodeExists(D, id) == id \in DOMAIN D.nodes

\* INSERT INTO node_properties (node_id, key, value) for every entry of the map
InsertNodeProperties(D, id, props) ==
  [D EXCEPT !.node_properties = @ \cup {<<id, kv[1], Stringify(kv[2])>> : kv \in props}]

\* an update that would keep the rows it should delete
KeepNodeProperties(D, id) == D

DeleteNodeProperties(D, id) ==
  [D EXCEPT !.node_properties = {r \in @ : r[1] # id}]

\* UPDATE nodes SET is_independent = 0 WHERE label = ? AND id != ?
DemoteOthers(D, label, id) ==
  [D EXCEPT !.nodes = [n \in DOMAIN @ |->
     IF @[n].label = label /\ n # id THEN [@[n] EXCEPT !.is_independent = FALSE] ELSE @[n]]]

\* SELECT id FROM nodes WHERE label = ? LIMIT 1 returned a row
LabelExists(D, label) == \E n \in DOMAIN D.nodes : D.nodes[n].label = label

\* addNodeOperation; node = [id (0: none given), type, label, is_independent, properties]
AddNodeOperation(D, node) ==
  LET id == IF node.id = 0 THEN D.nextNodeId ELSE node.id
      D0 == IF node.id = 0 THEN [D EXCEPT !.nextNodeId = @ + 1] ELSE D
      existing == LabelExists(D0, node.label)
      isIndependent ==
        IF node.is_independent # None THEN node.is_independent[1] ELSE ~existing
      D1 == IF existing THEN DemoteOthers(D0, node.label, id) ELSE D0
      D2 == [D1 EXCEPT !.nodes = Put(@, id,
               [type |-> node.type, label |-> node.label, is_independent |-> isIndependent])]
      D3 == IF node.properties # None THEN InsertNodeProperties(D2, id, node.properties[1]) ELSE D2
  IN IF NodeExists(D1, id)
       THEN Fail(D1, "DatabaseError")   \* the INSERT violates the primary key
       ELSE Ok(D3, id)

NoNodeUpdates == [label |-> None, type |-> None, is_independent |-> None, properties |-> None]

\* updateOperation of updateNode; updates = [label, type, is_independent, properties], each optional
UpdateNodeOperation(D, id, updates) ==
  IF ~NodeExists(D, id) THEN Fail(D, "NodeNotFoundError")
  ELSE
    LET recompute == updates.label # None /\ updates.is_independent = None
        othersHaveLabel ==
          \E n \in DOMAIN D.nodes : n # id /\ D.nodes[n].label = updates.label[1]
        isIndependent ==
          IF updates.is_independent # None THEN updates.is_independent
          ELSE IF recompute THEN Some(~othersHaveLabel)
          ELSE None
        D1 == IF recompute /\ ~othersHaveLabel
                THEN DemoteOthers(D, updates.label[1], id) ELSE D
        row == D1.nodes[id]
        newRow == [type |-> IF updates.type # None THEN updates.type[1] ELSE row.type,
                   label |-> IF updates.label # None THEN updates.label[1] ELSE row.label,
                   is_independent |->
                     IF isIndependent # None THEN isIndependent[1] ELSE row.is_independent]
        D2 == [D1 EXCEPT !.nodes[id] = newRow]
        D3 == IF updates.properties # None
                THEN InsertNodeProperties(DeleteNodeProperties(D2, id), id, updates.properties[1])
                ELSE D2
    IN Ok(D3, id)

-----------------------------------------------------------------------------
(* Relationships, and the structured relationships built from a            *)
(* RELATIONSHIP_TYPE node and two _relay edges.  A query without ORDER BY  *)
(* returns its rows in an order the code does not fix: asc = TRUE is       *)
(* insertion order, asc = FALSE the reverse.                               *)

Min(S) == CHOOSE x \in S : \A y \in S : x <= y

Max(S) == CHOOSE x \in S : \A y \in S : x >= y

First(S, asc) == IF asc THEN Min(S) ELSE Max(S)

RECURSIVE Rows(_, _)
Rows(S, asc) ==
  IF S = {} THEN <<>> ELSE <<First(S, asc)>> \o Rows(S \ {First(S, asc)}, asc)

EdgeExists(D, id) == id \in DOMAIN D.relationships

\* SELECT id FROM relationships WHERE target_id = ? AND type = '_relay'
RelaysInto(D, n) ==
  {e \in DOMAIN D.relationships :
     D.relationships[e].type = RELAY /\ D.relationships[e].target_id = n}

\* SELECT id FROM relationships WHERE source_id = ? AND type = '_relay'
RelaysOutOf(D, n) ==
  {e \in DOMAIN D.relationships :
     D.relationships[e].type = RELAY /\ D.relationships[e].source_id = n}

\* SELECT id FROM relationships WHERE (source_id = ? OR target_id = ?) AND type != '_relay'
DirectEdgesOf(D, n) ==
  {e \in DOMAIN D.relationships :
     /\ D.relationships[e].type # RELAY
     /\ D.relationships[e].source_id = n \/ D.relationships[e].target_id = n}

\* SELECT * FROM nodes WHERE id = ? AND type = RELATIONSHIP_TYPE returned a row
IsRelationshipNode(D, id) == NodeExists(D, id) /\ D.nodes[id].type = RELATIONSHIP_TYPE

InsertRelationshipProperties(D, id, props) ==
  [D EXCEPT !.relationship_properties = @ \cup {<<id, kv[1], Stringify(kv[2])>> : kv \in props}]

\* a deletion that would remove the rows of relationships and keep their properties
DeleteRelationshipRowsOnly(D, ids) == [D EXCEPT !.relationships = Remove(@, ids)]

\* DELETE FROM relationship_properties WHERE relationship_id = ?, then DELETE FROM relationships WHERE id = ?
DeleteRelationships(D, ids) ==
  [D EXCEPT !.relationship_properties = {r \in @ : r[1] \notin ids},
            !.relationships = Remove(@, ids)]

\* DELETE FROM node_properties WHERE node_id = ?, then DELETE FROM nodes WHERE id = ?
DeleteNodeRow(D, id) ==
  [DeleteNodeProperties(D, id) EXCEPT !.nodes = Remove(@, {id})]

\* a deletion that would remove the node and leave its relay edges
DeleteNodeRowOnly(D, id, asc) == Ok(DeleteNodeRow(D, id), id)

\* the RELATIONSHIP_TYPE branch: values[0] of the incoming and of the outgoing relay edges
DeleteNodeInternal(D, id, asc) ==
  IF ~NodeExists(D, id) THEN Fail(D, "NodeNotFoundError")
  ELSE
    LET incoming == RelaysInto(D, id)
        D1 == IF incoming # {} THEN DeleteRelationships(D, {First(incoming, asc)}) ELSE D
        outgoing == RelaysOutOf(D1, id)
        D2 == IF outgoing # {} THEN DeleteRelationships(D1, {First(outgoing, asc)}) ELSE D1
    IN Ok(DeleteNodeRow(D2, id), id)

\* the loops over relay rows of CASCADE: delete each far end that is a RELATIONSHIP_TYPE node
RECURSIVE DeleteRelationshipNodes(_, _, _)
DeleteRelationshipNodes(D, ids, asc) ==
  IF ids = <<>> THEN D
  ELSE LET n == Head(ids)
           D1 == IF IsRelationshipNode(D, n) THEN DeleteNodeInternal(D, n, asc).db ELSE D
       IN DeleteRelationshipNodes(D1, Tail(ids), asc)

\* CASCADE on a regular node, after both loops over its relay rows
DeleteDirectEdges(D, id) ==
  DeleteNodeRow(
    DeleteRelationships(D, DirectEdgesOf(D, id)), id)

\* one loop of CASCADE: SELECT the far ends of the relay rows, then delete the RELATIONSHIP_TYPE ones
CascadeRelays(D, id, outgoing, asc) ==
  LET Loop(rows) ==
        DeleteRelationshipNodes(D,
          [i \in DOMAIN rows |->
             IF outgoing THEN D.relationships[rows[i]].target_id
                         ELSE D.relationships[rows[i]].source_id], asc)
  IN Loop(Rows(IF outgoing THEN RelaysOutOf(D, id) ELSE RelaysInto(D, id), asc))

\* a deletion that would remove the node and leave its edges pointing at it
DeleteNodeKeepingEndpoints(D, id, mode, asc) ==
  IF ~NodeExists(D, id) THEN Fail(D, "NodeNotFoundError") ELSE Ok(DeleteNodeRow(D, id), id)

DeleteNodeOperation(D, id, mode, asc) ==
  IF ~NodeExists(D, id) THEN Fail(D, "NodeNotFoundError")
  ELSE IF D.nodes[id].type = RELATIONSHIP_TYPE THEN DeleteNodeInternal(D, id, asc)
  ELSE IF mode = "CASCADE" THEN
    LET AfterIncoming(D2) == Ok(DeleteDirectEdges(D2, id), id)
        AfterOutgoing(D1) == AfterIncoming(CascadeRelays(D1, id, FALSE, asc))
    IN AfterOutgoing(CascadeRelays(D, id, TRUE, asc))
  ELSE
    Ok(DeleteNodeRow(
         [D EXCEPT !.relationships = [e \in DOMAIN @ |->
            [@[e] EXCEPT !.source_id = IF @ = id THEN NULL ELSE @,
                         !.target_id = IF @ = id THEN NULL ELSE @]]], id), id)

\* the catch of deleteNode: a NodeNotFoundError is rethrown, anything else wrapped
DeleteNodeCatch(kind) ==
  IF kind = "NodeNotFoundError" THEN kind ELSE "DatabaseError"

DeleteNode(D, id, mode, asc) ==
  LET Catch(r) == IF r.err = "none" THEN r ELSE Fail(D, DeleteNodeCatch(r.err))
  IN Catch(DeleteNodeOperation(D, id, mode, asc))

\* addEdgeOperation; edge = [id (0: none given), source_id, target_id, type, properties]
AddEdgeOperation(D, edge) ==
  LET id == IF edge.id = 0 THEN D.nextEdgeId ELSE edge.id
      D0 == IF edge.id = 0 THEN [D EXCEPT !.nextEdgeId = @ + 1] ELSE D
      D1 == [D0 EXCEPT !.relationships = Put(@, id,
              [source_id |-> edge.source_id, target_id |-> edge.target_id, type |-> edge.type])]
      D2 == IF edge.properties # None
              THEN InsertRelationshipProperties(D1, id, edge.properties[1]) ELSE D1
  IN IF edge.source_id # NULL /\ ~NodeExists(D0, edge.source_id) THEN Fail(D0, "NodeNotFoundError")
     ELSE IF edge.target_id # NULL /\ ~NodeExists(D0, edge.target_id) THEN Fail(D0, "NodeNotFoundError")
     ELSE IF EdgeExists(D0, id) THEN Fail(D0, "DatabaseError")
     ELSE Ok(D2, id)

\* The source_id / target_id getEdge starts from: the empty string.
EMPTY == -1

\* JSON.parse of a stored value
Parse(s) == s[2]

\* the for loop of getEdge: targetId is taken from the last row leaving id
LastTargetId(D, rows, id) ==
  LET hits == {i \in DOMAIN rows : D.relationships[rows[i]].source_id = id}
  IN IF hits = {} THEN EMPTY ELSE D.relationships[rows[Max(hits)]].target_id

\* a getEdge that would read the source from the row leaving the node
SourceFromOutgoingRow(D, rows, id) == LastTargetId(D, rows, id)

\* the for loop of getEdge: sourceId is taken from the last other row entering id
LastSourceId(D, rows, id) ==
  LET hits == {i \in DOMAIN rows :
                 /\ D.relationships[rows[i]].source_id # id
                 /\ D.relationships[rows[i]].target_id = id}
  IN IF hits = {} THEN EMPTY ELSE D.relationships[rows[Max(hits)]].source_id

GetEdge(D, id, asc) ==
  IF IsRelationshipNode(D, id) THEN
    LET relayEdges == Rows(RelaysInto(D, id) \cup RelaysOutOf(D, id), asc)
        targetId == LastTargetId(D, relayEdges, id)
        sourceId == LastSourceId(D, relayEdges, id)
    IN IF Len(relayEdges) = 2 /\ sourceId # NULL /\ targetId # NULL
         THEN Ok(D, [id |-> id, source_id |-> sourceId, target_id |-> targetId,
                     type |-> D.nodes[id].label, properties |-> {}, isStructured |-> TRUE,
                     relayEdgeIds |-> relayEdges])
         ELSE Fail(D, "EdgeNotFoundError")
  ELSE IF ~EdgeExists(D, id) THEN Fail(D, "EdgeNotFoundError")
  ELSE LET e == D.relationships[id]
       IN Ok(D, [id |-> id, source_id |-> e.source_id, target_id |-> e.target_id,
                 type |-> e.type,
                 properties |-> {<<r[2], Parse(r[3])>> : r \in {x \in D.relationship_properties : x[1] = id}},
                 isStructured |-> FALSE, relayEdgeIds |-> <<>>])

NoEdgeUpdates == [source_id |-> None, target_id |-> None, type |-> None, properties |-> None]

\* a given id that is neither null nor the empty string
Truthy(opt) == opt # None /\ opt[1] # NULL /\ opt[1] # EMPTY

\* updateEdgeOperation on a row of relationships
UpdatePlainEdge(D, id, updates) ==
  IF ~EdgeExists(D, id) THEN Fail(D, "EdgeNotFoundError")
  ELSE IF Truthy(updates.source_id) /\ ~NodeExists(D, updates.source_id[1])
    THEN Fail(D, "NodeNotFoundError")
  ELSE IF Truthy(updates.target_id) /\ ~NodeExists(D, updates.target_id[1])
    THEN Fail(D, "NodeNotFoundError")
  ELSE
    LET row == D.relationships[id]
        newRow ==
          [source_id |-> IF updates.source_id # None THEN updates.source_id[1] ELSE row.source_id,
           target_id |-> IF updates.target_id # None THEN updates.target_id[1] ELSE row.target_id,
           type |-> IF updates.type # None THEN updates.type[1] ELSE row.type]
        D1 == [D EXCEPT !.relationships[id] = newRow]
        D2 == IF updates.properties # None
                THEN InsertRelationshipProperties(
                       [D1 EXCEPT !.relationship_properties = {r \in @ : r[1] # id}],
                       id, updates.properties[1])
                ELSE D1
    IN Ok(D2, id)

\* updateEdgeOperation; the updateEdge calls on the relay edges take the branch of a plain edge
UpdateEdgeOperation(D, id, updates, asc) ==
  IF IsRelationshipNode(D, id) THEN
    LET nodeUpdates == [NoNodeUpdates EXCEPT !.label = updates.type,
                                             !.properties = updates.properties]
        AfterSource(r2, relayEdgeIds) ==
          IF r2.err # "none" THEN Fail(D, r2.err)
          ELSE IF updates.target_id = None THEN Ok(r2.db, id)
          ELSE UpdatePlainEdge(r2.db, relayEdgeIds[2],
                 [NoEdgeUpdates EXCEPT !.target_id = updates.target_id])
        AfterGetEdge(D1, g) ==
          IF g.err # "none" THEN Fail(D, g.err)
          ELSE AfterSource(
                 IF updates.source_id = None THEN Ok(D1, id)
                 ELSE UpdatePlainEdge(D1, g.value.relayEdgeIds[1],
                        [NoEdgeUpdates EXCEPT !.source_id = updates.source_id]),
                 g.value.relayEdgeIds)
        AfterUpdateNode(r1) ==
          IF r1.err # "none" THEN Fail(D, r1.err)
          ELSE AfterGetEdge(r1.db, GetEdge(r1.db, id, asc))
    IN AfterUpdateNode(
         IF nodeUpdates # NoNodeUpdates THEN UpdateNodeOperation(D, id, nodeUpdates) ELSE Ok(D, id))
  ELSE UpdatePlainEdge(D, id, updates)

DeleteEdge(D, id, asc) ==
  IF IsRelationshipNode(D, id) THEN DeleteNode(D, id, "CASCADE", asc)
  ELSE IF ~EdgeExists(D, id) THEN Fail(D, "EdgeNotFoundError")
  ELSE Ok(DeleteRelationships(D, {id}), id)

\* the three inserts shared by createStructuredRelationship and convertToStructuredRelationship
InsertStructured(D, relId, source, target, label, props) ==
  LET AfterRelays(r3, relationshipNodeId) ==
        IF r3.err # "none" THEN Fail(D, r3.err) ELSE Ok(r3.db, relationshipNodeId)
      AfterFirstRelay(r2, relationshipNodeId) ==
        IF r2.err # "none" THEN Fail(D, r2.err)
        ELSE AfterRelays(
               AddEdgeOperation(r2.db,
                 [id |-> 0, source_id |-> relationshipNodeId, target_id |-> target,
                  type |-> RELAY, properties |-> None]),
               relationshipNodeId)
      AfterAddNode(r1) ==
        IF r1.err # "none" THEN Fail(D, "DatabaseError")
        ELSE AfterFirstRelay(
               AddEdgeOperation(r1.db,
                 [id |-> 0, source_id |-> source, target_id |-> r1.value,
                  type |-> RELAY, properties |-> None]),
               r1.value)
  IN AfterAddNode(
       AddNodeOperation(D,
         [id |-> relId, type |-> RELATIONSHIP_TYPE, label |-> label,
          is_independent |-> Some(TRUE), properties |-> props]))

\* createStructuredRelationship on an engine whose transaction() runs nested calls
CreateStructuredRelationship(D, sourceNodeId, targetNodeId, relationshipLabel, properties) ==
  IF ~NodeExists(D, sourceNodeId) \/ ~NodeExists(D, targetNodeId)
    THEN Fail(D, "NodeNotFoundError")
    ELSE InsertStructured([D EXCEPT !.nextNodeId = @ + 1], D.nextNodeId,
                          sourceNodeId, targetNodeId, relationshipLabel, properties)

ConvertToStructuredRelationship(D, edgeId, relationshipLabel, properties, asc) ==
  LET AfterDelete(r2, relationshipNodeId) ==
        IF r2.err # "none" THEN Fail(D, r2.err) ELSE Ok(r2.db, relationshipNodeId)
      AfterInsert(r1) ==
        IF r1.err # "none" THEN Fail(D, r1.err)
        ELSE AfterDelete(DeleteEdge(r1.db, edgeId, asc), r1.value)
      Convert(edgeToConvert) ==
        IF edgeToConvert.type = RELAY THEN Fail(D, "ValidationError")
        ELSE IF edgeToConvert.source_id \in {NULL, EMPTY} \/ edgeToConvert.target_id \in {NULL, EMPTY}
          THEN Fail(D, "ValidationError")
        ELSE AfterInsert(
               InsertStructured(D, 0, edgeToConvert.source_id, edgeToConvert.target_id,
                 IF relationshipLabel # None THEN relationshipLabel[1]
                 ELSE IF edgeToConvert.type # "" THEN edgeToConvert.type
                 ELSE "converted_relationship",
                 IF properties # None THEN properties ELSE Some(edgeToConvert.properties)))
      AfterGetEdge(g) ==
        IF g.err # "none" THEN Fail(D, "EdgeNotFoundError") ELSE Convert(g.value)
  IN AfterGetEdge(GetEdge(D, edgeId, asc))

-----------------------------------------------------------------------------
(* Public operations as steps.  Each runs to completion on its own (its    *)
(* transaction is the only one); one that fails is rolled back.            *)

\* the ids handed out stay within the ids explored
WithinBounds(D) ==
  /\ D.nextNodeId <= MaxNodeIds + 1
  /\ D.nextEdgeId <= EdgeIdBase + MaxEdgeIds + 1

\* a call that resolves leaves its writes; one that rejects leaves the store as it was
Apply(r) ==
  /\ WithinBounds(r.db)
  /\ db' = (IF r.err = "none" THEN r.db ELSE db)

addNode(type, label, indep, props) ==
  /\ Apply(AddNodeOperation(db,
       [id |-> 0, type |-> type, label |-> label, is_independent |-> indep, properties |-> props]))
  /\ UNCHANGED txVars

updateNode(id, updates) ==
  /\ Apply(UpdateNodeOperation(db, id, updates))
  /\ UNCHANGED txVars

NodeLabels == {"X", "Y"}
NodeTypes == {"note", "task"}
IndependentInputs == {None, Some(TRUE), Some(FALSE)}

\* addNode and updateNode over labels, types and is_independent
NextLabel ==
  \/ \E l \in NodeLabels, ind \in IndependentInputs : addNode("note", l, ind, None)
  \/ \E id \in DOMAIN db.nodes, l \in NodeLabels :
       updateNode(id, [NoNodeUpdates EXCEPT !.label = Some(l)])
  \/ \E id \in DOMAIN db.nodes, t \in NodeTypes :
       updateNode(id, [NoNodeUpdates EXCEPT !.type = Some(t)])
  \/ \E id \in DOMAIN db.nodes, ind \in {Some(TRUE), Some(FALSE)} :
       updateNode(id, [NoNodeUpdates EXCEPT !.is_independent = ind])
  \/ \E id \in DOMAIN db.nodes, l \in NodeLabels, ind \in {Some(TRUE), Some(FALSE)} :
       updateNode(id, [NoNodeUpdates EXCEPT !.label = Some(l), !.is_independent = ind])

addEdge(type, source, target, props) ==
  /\ Apply(AddEdgeOperation(db,
       [id |-> 0, source_id |-> source, target_id |-> target, type |-> type, properties |-> props]))
  /\ UNCHANGED txVars

updateEdge(id, updates) ==
  /\ \E asc \in BOOLEAN : Apply(UpdateEdgeOperation(db, id, updates, asc))
  /\ UNCHANGED txVars

deleteEdge(id) ==
  /\ \E asc \in BOOLEAN : Apply(DeleteEdge(db, id, asc))
  /\ UNCHANGED txVars

deleteNode(id, mode) ==
  /\ \E asc \in BOOLEAN : Apply(DeleteNode(db, id, mode, asc))
  /\ UNCHANGED txVars

createStructuredRelationship(source, target, label, props) ==
  /\ Apply(CreateStructuredRelationship(db, source, target, label, props))
  /\ UNCHANGED txVars

convertToStructuredRelationship(edgeId, label) ==
  /\ \E asc \in BOOLEAN : Apply(ConvertToStructuredRelationship(db, edgeId, label, None, asc))
  /\ UNCHANGED txVars

DeleteModes == {"KEEP_CONNECTED", "CASCADE"}

\* the ids a caller can name as an edge: rows of relationships and RELATIONSHIP_TYPE nodes
EdgeHandles == DOMAIN db.relationships \cup {n \in DOMAIN db.nodes : IsRelationshipNode(db, n)}

\* nodes, edges and structured relationships
NextGraph ==
  \/ addNode("note", "X", None, None)
  \/ \E s \in DOMAIN db.nodes, t \in DOMAIN db.nodes : addEdge("link", s, t, None)
  \/ \E s \in DOMAIN db.nodes, t \in DOMAIN db.nodes : createStructuredRelationship(s, t, "L", None)
  \/ \E e \in EdgeHandles : convertToStructuredRelationship(e, None)
  \/ \E e \in EdgeHandles, n \in DOMAIN db.nodes :
       updateEdge(e, [NoEdgeUpdates EXCEPT !.source_id = Some(n)])
  \/ \E e \in EdgeHandles, n \in DOMAIN db.nodes :
       updateEdge(e, [NoEdgeUpdates EXCEPT !.target_id = Some(n)])
  \/ \E e \in EdgeHandles : deleteEdge(e)
  \/ \E n \in DOMAIN db.nodes, mode \in DeleteModes : deleteNode(n, mode)

\* property maps given when an entity is created, and given when it is updated
CreateProperties == {None, Some({<<"k", 1>>})}
UpdateProperties == {Some({<<"j", 2>>})}

\* Nodes added directly in the runs with properties (a further id is left for a relationship node).
MaxPlainNodes == 2

\* entities with properties: created, updated and deleted
NextProps ==
  \/ \E p \in CreateProperties : db.nextNodeId <= MaxPlainNodes /\ addNode("note", "X", None, p)
  \/ \E n \in DOMAIN db.nodes, p \in UpdateProperties :
       updateNode(n, [NoNodeUpdates EXCEPT !.properties = p])
  \/ \E s \in DOMAIN db.nodes : \E t \in DOMAIN db.nodes \ {s} :
       addEdge("link", s, t, Some({<<"k", 1>>}))
  \/ \E e \in EdgeHandles, p \in UpdateProperties :
       updateEdge(e, [NoEdgeUpdates EXCEPT !.properties = p])
  \/ \E s \in DOMAIN db.nodes, t \in DOMAIN db.nodes, p \in CreateProperties :
       createStructuredRelationship(s, t, "L", p)
  \/ \E e \in EdgeHandles : deleteEdge(e)
  \/ \E n \in DOMAIN db.nodes, mode \in DeleteModes : deleteNode(n, mode)

-----------------------------------------------------------------------------

-----------------------------------------------------------------------------
(* BaseGraphDB.initialize and close.  lifecycle.db is the engine held (0:  *)
(* null), engines created are numbered from 1.                             *)

\* Callers of initialize().
MaxInitCalls == 3

InitCallers == 1..MaxInitCalls

InitLifecycle ==
  [initialized |-> FALSE, db |-> 0, engines |-> 0, createEngineCalls |-> 0, setups |-> 0,
   pc |-> [c \in InitCallers |-> "idle"]]

\* if (this.initialized) return; this.config = config; createEngine(config) is called and awaited
InitializeCall(c) ==
  /\ lifecycle.pc[c] = "idle"
  /\ lifecycle' =
       IF lifecycle.initialized
         THEN [lifecycle EXCEPT !.pc[c] = "returned"]
         ELSE [lifecycle EXCEPT !.pc[c] = "createEngine", !.createEngineCalls = @ + 1]
  /\ UNCHANGED <<calls, transactionQueue, isInTransaction, connTxActive, store, snapshot, clearPc, db>>

\* this.db = await this.createEngine(config); setupDatabase() is called and awaited
CreateEngineReturns(c) ==
  /\ lifecycle.pc[c] = "createEngine"
  /\ lifecycle' = [lifecycle EXCEPT !.pc[c] = "setupDatabase",
                                    !.engines = @ + 1, !.db = lifecycle.engines + 1]
  /\ UNCHANGED <<calls, transactionQueue, isInTransaction, connTxActive, store, snapshot, clearPc, db>>

\* the schema transaction of setupDatabase() ends; this.initialized = true.
\* On an engine closed meanwhile it fails and initialize rejects.
SetupDatabaseReturns(c) ==
  /\ lifecycle.pc[c] = "setupDatabase"
  /\ lifecycle' =
       IF lifecycle.db = 0
         THEN [lifecycle EXCEPT !.pc[c] = "rejected"]
         ELSE [lifecycle EXCEPT !.pc[c] = "returned", !.setups = @ + 1, !.initialized = TRUE]
  /\ UNCHANGED <<calls, transactionQueue, isInTransaction, connTxActive, store, snapshot, clearPc, db>>

\* the caller has its answer and may call again
InitializeSettled(c) ==
  /\ lifecycle.pc[c] \in {"returned", "rejected"}
  /\ lifecycle' = [lifecycle EXCEPT !.pc[c] = "idle"]
  /\ UNCHANGED <<calls, transactionQueue, isInTransaction, connTxActive, store, snapshot, clearPc, db>>

\* close(): if (this.db) { await this.db.close(); this.db = null; this.initialized = false }
\* The counts are of the database that is open, and start again.
Close ==
  /\ lifecycle.db # 0
  /\ lifecycle' = [lifecycle EXCEPT !.db = 0, !.initialized = FALSE,
                                    !.createEngineCalls = 0, !.setups = 0]
  /\ UNCHANGED <<calls, transactionQueue, isInTransaction, connTxActive, store, snapshot, clearPc, db>>

NextInit ==
  \/ \E c \in InitCallers : lifecycle.engines < MaxInitCalls /\ InitializeCall(c)
  \/ \E c \in InitCallers : CreateEngineReturns(c)
  \/ \E c \in InitCallers : SetupDatabaseReturns(c)
  \/ \E c \in InitCallers : InitializeSettled(c)
  \/ Close

Init == InitTx /\ db = InitDb /\ lifecycle = InitLifecycle

SpecTx == Init /\ [][NextTx]_vars

SpecTxFair == Init /\ [][NextTx]_vars /\ WF_vars(ProgramStep /\ UNCHANGED <<db, lifecycle>>)

SpecLabel == Init /\ [][NextLabel]_vars

SpecGraph == Init /\ [][NextGraph]_vars

SpecProps == Init /\ [][NextProps]_vars

SpecInit == Init /\ [][NextInit]_vars

-----------------------------------------------------------------------------
(* Properties of the transaction coordinator.                              *)

\* Records of calls a behaviour can hold: each top-level call and the one
\* nested call a body reaches.
CallSlots == 1..(2 * MaxCalls)

Threw(i) == calls[i].outcome = "rejected" /\ calls[i].threw # "none"

\* C1: when an operation run through transaction() throws after one or more
\* writes, the store at the moment the call rejects equals the store at the
\* moment the operation began.
C1_RejectedLeavesStoreAsBefore ==
  \A i \in CallIds : Threw(i) /\ calls[i].wrote => calls[i].post = calls[i].pre

\* a rejected operation whose writes are still in the store
C1_WritesSurvive ==
  \E i \in CallIds : Threw(i) /\ calls[i].wrote /\ calls[i].post # calls[i].pre

InBody(i) == calls[i].pc \in {"body", "await"}

\* C2: bodies of operations submitted through transaction() never overlap:
\* at most one call is between its start and its commit or rollback, and
\* while one is, the connection holds at most the one transaction it began.
C2_BodiesNeverOverlap ==
  \A i, j \in CallIds : InBody(i) /\ InBody(j) => i = j

\* a second operation is in its body after the first one committed
C2_SecondRunsAfterFirst ==
  \E i, j \in CallIds :
    /\ i # j
    /\ calls[i].commit = "ok"
    /\ InBody(j) /\ calls[j].path = "top" /\ calls[j].wrote

\* call i is createStructuredRelationship, submitted while the coordinator was idle
SubmittedIdle(i) ==
  IF i \in CallIds
    THEN calls[i].op = "createStructuredRelationship" /\ calls[i].idleAtSubmit
    ELSE FALSE

Settled(i) == IF i \in CallIds THEN calls[i].outcome # "pending" ELSE FALSE

\* C3: createStructuredRelationship with default arguments, submitted to an
\* idle coordinator, eventually settles: it does not block for ever.
C3_CreateStructuredRelationshipSettles ==
  \A i \in CallSlots : SubmittedIdle(i) ~> Settled(i)

\* call i was made from inside the body of a call the coordinator is running
Nested(i) == IF i \in CallIds THEN calls[i].parent # 0 ELSE FALSE

RanDirectly(i) == IF i \in CallIds THEN calls[i].path = "direct" ELSE FALSE

\* C4: a transaction(op) call made from inside the body of an operation the
\* coordinator is running is eventually executed directly in the active
\* transaction.
C4_NestedRunsDirectly ==
  \A i \in CallSlots : Nested(i) ~> RanDirectly(i)

\* C5: top-level operations run in submission order: when a later one has
\* started, every earlier one has finished (committed, rolled back, or been
\* rejected).
C5_SubmissionOrder ==
  \A i, j \in TopLevelCalls :
    i < j /\ calls[j].path # "none" => calls[i].pc = "done"

\* two top-level operations both ran and committed, the later after the earlier
C5_LaterRanAfterEarlier ==
  \E i, j \in TopLevelCalls :
    /\ i < j
    /\ calls[i].outcome = "fulfilled"
    /\ calls[j].path = "top" /\ calls[j].outcome = "fulfilled"

TopLevelThrow(i) == calls[i].path = "top" /\ Threw(i)

C7_NotFoundSurfacesAsIs ==
  \A i \in CallIds :
    calls[i].op = "deleteNode" /\ Threw(i) =>
      DeleteNodeCatch(calls[i].err.kind) = "NodeNotFoundError"

\* deleteNode threw NodeNotFoundError and the caller received a DatabaseError
C7_NotFoundWrapped ==
  \E i \in CallIds :
    /\ calls[i].op = "deleteNode" /\ Threw(i)
    /\ calls[i].threw = "NodeNotFoundError"
    /\ DeleteNodeCatch(calls[i].err.kind) = "DatabaseError"

-----------------------------------------------------------------------------
(* Properties of the entity repository.                                    *)

IndependentHolders(D, label) ==
  {n \in DOMAIN D.nodes : D.nodes[n].label = label /\ D.nodes[n].is_independent}

\* C8: after any sequence of addNode and updateNode calls, with or without
\* an explicit is_independent, at most one node of each label has
\* is_independent = true.
C8_AtMostOneIndependentPerLabel ==
  \A l \in NodeLabels : Cardinality(IndependentHolders(db, l)) <= 1

\* two nodes of one label are both independent
C8_TwoIndependentHolders ==
  \E l \in NodeLabels : Cardinality(IndependentHolders(db, l)) = 2

\* addNode called without is_independent
AddNodeByDefault(D, label) ==
  AddNodeOperation(D,
    [id |-> 0, type |-> "note", label |-> label, is_independent |-> None, properties |-> None])

\* C9: in every state with an independent holder of a label, addNode without
\* is_independent for that label stores the new node with is_independent =
\* false and leaves the holder with is_independent = true.
C9_ExistingHolderStaysIndependent ==
  \A l \in NodeLabels :
    IndependentHolders(db, l) # {} =>
      /\ ~AddNodeByDefault(db, l).db.nodes[AddNodeByDefault(db, l).value].is_independent
      /\ \A n \in IndependentHolders(db, l) : AddNodeByDefault(db, l).db.nodes[n].is_independent

\* a label with no independent holder although it has nodes, the later one
\* added without is_independent
C9_HolderDemotedByDefaultAdd ==
  \E l \in NodeLabels :
    /\ IndependentHolders(db, l) # {}
    /\ IndependentHolders(AddNodeByDefault(db, l).db, l) = {}

RelationshipNodes(D) == {n \in DOMAIN D.nodes : D.nodes[n].type = RELATIONSHIP_TYPE}

\* the two relay edges of n and their outer endpoints are as §3 of the data model requires
WellFormedRelationship(D, n) ==
  /\ Cardinality(RelaysInto(D, n)) = 1
  /\ Cardinality(RelaysOutOf(D, n)) = 1
  /\ \A i \in RelaysInto(D, n), o \in RelaysOutOf(D, n) :
       /\ i # o
       /\ NodeExists(D, D.relationships[i].source_id)
       /\ NodeExists(D, D.relationships[o].target_id)
       /\ D.relationships[i].source_id # D.relationships[o].target_id

\* C10: after any sequence of public operations every RELATIONSHIP_TYPE node
\* has exactly two RELAY edges, one incoming and one outgoing, whose outer
\* endpoints are existing nodes distinct from each other.
C10_RelationshipNodesWellFormed ==
  \A n \in RelationshipNodes(db) : WellFormedRelationship(db, n)

\* a RELATIONSHIP_TYPE node one of whose relay edges has lost its outer endpoint
C10_RelayWithoutEndpoint ==
  \E n \in RelationshipNodes(db) :
    \E i \in RelaysInto(db, n) : db.relationships[i].source_id = NULL

-----------------------------------------------------------------------------
(* Reads over the whole store.                                             *)

\* the relay rows getEdges selects for a RELATIONSHIP_TYPE node
RelaysOf(D, n) == RelaysInto(D, n) \cup RelaysOutOf(D, n)

\* a getEdges that would not count the relay rows of a RELATIONSHIP_TYPE node
StructuredEdgesOfEveryNode(D, asc) ==
  LET relNodes == Rows(RelationshipNodes(D), asc)
  IN [i \in DOMAIN relNodes |->
        [id |-> relNodes[i],
         source_id |-> LastSourceId(D, Rows(RelaysOf(D, relNodes[i]), asc), relNodes[i]),
         target_id |-> LastTargetId(D, Rows(RelaysOf(D, relNodes[i]), asc), relNodes[i]),
         type |-> D.nodes[relNodes[i]].label,
         properties |-> {},
         isStructured |-> TRUE]]

\* getEdges, part 1: one structured edge per RELATIONSHIP_TYPE node with exactly two relay rows
StructuredEdges(D, asc) ==
  LET relNodes == Rows({n \in RelationshipNodes(D) : Cardinality(RelaysOf(D, n)) = 2}, asc)
  IN [i \in DOMAIN relNodes |->
        [id |-> relNodes[i],
         source_id |-> LastSourceId(D, Rows(RelaysOf(D, relNodes[i]), asc), relNodes[i]),
         target_id |-> LastTargetId(D, Rows(RelaysOf(D, relNodes[i]), asc), relNodes[i]),
         type |-> D.nodes[relNodes[i]].label,
         properties |-> {},
         isStructured |-> TRUE]]

\* SELECT key, value FROM relationship_properties WHERE relationship_id = ?, each value parsed
EdgeProperties(D, id) ==
  {<<r[2], Parse(r[3])>> : r \in {x \in D.relationship_properties : x[1] = id}}

\* getEdges, part 2: the rows of relationships that are not relay edges
PlainEdges(D, asc) ==
  LET rows == Rows({e \in DOMAIN D.relationships : D.relationships[e].type # RELAY}, asc)
  IN [i \in DOMAIN rows |->
        [id |-> rows[i],
         source_id |-> D.relationships[rows[i]].source_id,
         target_id |-> D.relationships[rows[i]].target_id,
         type |-> D.relationships[rows[i]].type,
         properties |-> EdgeProperties(D, rows[i]),
         isStructured |-> FALSE]]

GetEdges(D, asc) == StructuredEdges(D, asc) \o PlainEdges(D, asc)

-----------------------------------------------------------------------------
(* Properties of reads, deletes, traversal and import.                     *)

\* the fields of an edge view a caller compares
SameEdge(e, id, source, target, type, structured) ==
  /\ e.id = id
  /\ e.source_id = source
  /\ e.target_id = target
  /\ e.type = type
  /\ e.isStructured = structured

\* g is what getEdge(id) returned and all what getEdges() returned
ReadBack(g, all, id, A, B, L) ==
  /\ g.err = "none"
  /\ SameEdge(g.value, id, A, B, L, TRUE)
  /\ Cardinality({i \in DOMAIN all : all[i].id = id}) = 1
  /\ \A i \in DOMAIN all : all[i].id = id => SameEdge(all[i], id, A, B, L, TRUE)

CreatedViewIsRight(r, A, B, L, asc) ==
  r.err = "none" => ReadBack(GetEdge(r.db, r.value, asc), GetEdges(r.db, asc), r.value, A, B, L)

\* C11: in every reachable store, when createStructuredRelationship(A, B, L)
\* succeeds with id r, getEdge(r) returns the edge (r, A, B, L, structured)
\* and getEdges() contains exactly one edge with id r, with the same fields.
C11_CreatedRelationshipIsRead ==
  \A A \in DOMAIN db.nodes, B \in DOMAIN db.nodes, asc \in BOOLEAN :
    CreatedViewIsRight(CreateStructuredRelationship(db, A, B, "L", None), A, B, "L", asc)

\* a structured relationship between two different nodes has been created and is read back
C11_RelationshipCreatedAndRead ==
  \E n \in RelationshipNodes(db) :
    /\ GetEdge(db, n, TRUE).err = "none"
    /\ GetEdge(db, n, TRUE).value.source_id # GetEdge(db, n, TRUE).value.target_id
    /\ GetEdge(db, n, TRUE).value.type = "L"
    /\ \E i \in DOMAIN GetEdges(db, TRUE) : GetEdges(db, TRUE)[i].id = n

\* res is the result of deleting the structured relationship r of D, and nothing else
DeletedWholeRelationship(D, r, res) ==
  /\ res.err = "none"
  /\ res.db.nodes = Remove(D.nodes, {r})
  /\ res.db.node_properties = {p \in D.node_properties : p[1] # r}
  /\ res.db.relationships = Remove(D.relationships, RelaysOf(D, r))
  /\ res.db.relationship_properties =
       {p \in D.relationship_properties : p[1] \notin RelaysOf(D, r)}

\* C12: in every reachable store, deleteEdge(r) and deleteNode(r, mode), for
\* either mode, on a well-formed structured relationship r remove its
\* RELATIONSHIP_TYPE node, that node's properties and both relay edges, and
\* leave every other node, edge and property as it was.
C12_DeleteRemovesWholeRelationship ==
  \A r \in RelationshipNodes(db), asc \in BOOLEAN :
    WellFormedRelationship(db, r) =>
      /\ DeletedWholeRelationship(db, r, DeleteEdge(db, r, asc))
      /\ \A mode \in DeleteModes :
           DeletedWholeRelationship(db, r, DeleteNode(db, r, mode, asc))

\* a well-formed relationship with properties, next to a plain edge with
\* properties, that deleteEdge removes
C12_RelationshipToDelete ==
  \E r \in RelationshipNodes(db) :
    /\ WellFormedRelationship(db, r)
    /\ \E p \in db.node_properties : p[1] = r
    /\ \E p \in db.relationship_properties : p[1] \notin RelaysOf(db, r)
    /\ r \notin DOMAIN DeleteEdge(db, r, TRUE).db.nodes
    /\ DOMAIN DeleteEdge(db, r, TRUE).db.relationships # {}

\* the edges of D that touch node id
EdgesTouching(D, id) ==
  {e \in DOMAIN D.relationships :
     D.relationships[e].source_id = id \/ D.relationships[e].target_id = id}

\* res is the result of deleteNode(id, CASCADE) on D: when it succeeded, no edge and no edge property of id is left
NoTraceOfNode(D, id, res) ==
  res.err = "none" =>
    /\ EdgesTouching(res.db, id) = {}
    /\ \A p \in res.db.relationship_properties : p[1] \notin EdgesTouching(D, id)

\* C13: in every reachable store, a successful deleteNode(id, CASCADE) leaves
\* no relationships row whose source_id or target_id is id and no
\* relationship_properties row of an edge that touched id.
C13_CascadeLeavesNoEdgeOfNode ==
  \A id \in DOMAIN db.nodes, asc \in BOOLEAN :
    NoTraceOfNode(db, id, DeleteNode(db, id, "CASCADE", asc))

\* deleteNode(id, CASCADE) succeeds and an edge with its properties still names id
C13_EdgeOfDeletedNodeRemains ==
  \E id \in DOMAIN db.nodes :
    /\ DeleteNode(db, id, "CASCADE", TRUE).err = "none"
    /\ \E p \in DeleteNode(db, id, "CASCADE", TRUE).db.relationship_properties :
         p[1] \in EdgesTouching(DeleteNode(db, id, "CASCADE", TRUE).db, id)

\* endpoint v of an edge after node id is gone in KEEP_CONNECTED mode
Detached(v, id) == IF v = id THEN NULL ELSE v

\* res is the result of deleteNode(id, KEEP_CONNECTED) on D: the node and its
\* properties are gone, every edge is kept with the endpoints that were id set to NULL
KeptConnected(D, id, res) ==
  /\ res.err = "none"
  /\ res.db.nodes = Remove(D.nodes, {id})
  /\ res.db.node_properties = {p \in D.node_properties : p[1] # id}
  /\ DOMAIN res.db.relationships = DOMAIN D.relationships
  /\ \A e \in DOMAIN D.relationships :
       /\ res.db.relationships[e].type = D.relationships[e].type
       /\ res.db.relationships[e].source_id = Detached(D.relationships[e].source_id, id)
       /\ res.db.relationships[e].target_id = Detached(D.relationships[e].target_id, id)
  /\ res.db.relationship_properties = D.relationship_properties

\* C14: in every reachable store, deleteNode(id, KEEP_CONNECTED) on a node that
\* is not a RELATIONSHIP_TYPE node succeeds, removes the node and its
\* properties, and keeps every edge with its id, type and properties, the
\* endpoints that were id set to null and the other endpoints unchanged.
C14_KeepConnectedDetachesEdges ==
  \A id \in DOMAIN db.nodes, asc \in BOOLEAN :
    ~IsRelationshipNode(db, id) =>
      KeptConnected(db, id, DeleteNode(db, id, "KEEP_CONNECTED", asc))

\* an edge with properties whose source node was deleted in KEEP_CONNECTED mode
C14_EdgeDetachedFromDeletedNode ==
  \E e \in DOMAIN db.relationships :
    /\ db.relationships[e].type = "link"
    /\ db.relationships[e].source_id = NULL
    /\ db.relationships[e].target_id \in DOMAIN db.nodes
    /\ \E p \in db.relationship_properties : p[1] = e

\* SELECT key, value FROM node_properties WHERE node_id = ?, each value parsed
NodeProperties(D, id) ==
  {<<r[2], Parse(r[3])>> : r \in {x \in D.node_properties : x[1] = id}}

\* getNodes: one view per row of nodes
GetNodes(D, asc) ==
  LET rows == Rows(DOMAIN D.nodes, asc)
  IN [i \in DOMAIN rows |->
        [id |-> rows[i],
         label |-> D.nodes[rows[i]].label,
         type |-> D.nodes[rows[i]].type,
         is_independent |-> D.nodes[rows[i]].is_independent,
         properties |-> NodeProperties(D, rows[i])]]

\* exportToJson, as importFromJson parses it: data.nodes and data.edges, every
\* item with a properties object
ExportToJson(D, asc) ==
  LET nodes == GetNodes(D, asc)
      edges == GetEdges(D, asc)
  IN [nodes |-> [i \in DOMAIN nodes |-> [nodes[i] EXCEPT !.properties = Some(@)]],
      edges |-> [i \in DOMAIN edges |-> [edges[i] EXCEPT !.properties = Some(@)]]]

\* a truncation that would delete the rows of nodes and relationships only
ClearRowsOnly(D) == [D EXCEPT !.nodes = <<>>, !.relationships = <<>>]

\* The four DELETE statements of REPLACE mode.
ClearTables(D) ==
  [D EXCEPT !.nodes = <<>>, !.relationships = <<>>,
            !.node_properties = {}, !.relationship_properties = {}]

Elements(seq) == {seq[i] : i \in DOMAIN seq}

\* this.db.transaction() as importFromJson's calls meet it: isInTransaction is
\* set, so the callback runs directly and what it throws rejects the promise
\* that becomes transactionQueue; every later call is chained on the rejected
\* promise and rejects without running.  r is the result of the callback.
ThroughQueue(acc, r) ==
  IF acc.queueRejected THEN Fail(acc.db, "DatabaseError") ELSE r

\* one turn of the loop over data.nodes;
\* acc = [db, errors, importedNodeIds, importedEdgeIds, queueRejected].
\* addNode and updateNode run inside the transaction importFromJson began, so a
\* statement that fails leaves what the call wrote before it.
ImportNode(acc, node, mode) ==
  LET newNode == [id |-> node.id, label |-> node.label, type |-> node.type,
                  is_independent |-> None, properties |-> node.properties]
      Added(r) ==
        IF r.err = "none"
          THEN [acc EXCEPT !.db = r.db, !.importedNodeIds = Append(@, r.value)]
          ELSE [acc EXCEPT !.db = r.db, !.errors = Append(@, <<"node", node.id>>),
                           !.queueRejected = TRUE]
      Updated(u) ==
        IF u.err = "none"
          THEN [acc EXCEPT !.db = u.db, !.importedNodeIds = Append(@, node.id)]
          ELSE Added(Fail(u.db, "DatabaseError"))
  IN IF mode = "MERGE" /\ node.id # 0 /\ NodeExists(acc.db, node.id)
       THEN Updated(ThroughQueue(acc, UpdateNodeOperation(acc.db, node.id,
              [label |-> Some(node.label), type |-> Some(node.type),
               is_independent |-> None, properties |-> node.properties])))
       ELSE Added(ThroughQueue(acc, AddNodeOperation(acc.db, newNode)))

RECURSIVE ImportNodes(_, _, _)
ImportNodes(acc, nodes, mode) ==
  IF nodes = <<>> THEN acc
  ELSE ImportNodes(ImportNode(acc, Head(nodes), mode), Tail(nodes), mode)

\* one turn of the loop over data.edges
ImportEdge(acc, edge, mode, asc) ==
  LET Skipped == [acc EXCEPT !.errors = Append(@, <<"edge", edge.id>>)]
      Added(r) ==
        IF r.err = "none"
          THEN [acc EXCEPT !.db = r.db, !.importedEdgeIds = Append(@, r.value)]
          ELSE [acc EXCEPT !.db = r.db, !.errors = Append(@, <<"edge", edge.id>>),
                           !.queueRejected = TRUE]
      Updated(u) ==
        IF u.err = "none"
          THEN [acc EXCEPT !.db = u.db, !.importedEdgeIds = Append(@, edge.id)]
          ELSE Added(Fail(u.db, "DatabaseError"))
  IN IF edge.source_id # NULL /\ edge.source_id \notin Elements(acc.importedNodeIds)
       THEN Skipped
     ELSE IF edge.target_id # NULL /\ edge.target_id \notin Elements(acc.importedNodeIds)
       THEN Skipped
     ELSE IF mode = "MERGE" /\ edge.id # 0 /\ GetEdge(acc.db, edge.id, asc).err = "none"
       THEN Updated(ThroughQueue(acc, UpdateEdgeOperation(acc.db, edge.id,
              [source_id |-> Some(edge.source_id), target_id |-> Some(edge.target_id),
               type |-> Some(edge.type), properties |-> edge.properties], asc)))
     ELSE Added(ThroughQueue(acc, AddEdgeOperation(acc.db, edge)))

RECURSIVE ImportEdges(_, _, _, _)
ImportEdges(acc, edges, mode, asc) ==
  IF edges = <<>> THEN acc
  ELSE ImportEdges(ImportEdge(acc, Head(edges), mode, asc), Tail(edges), mode, asc)

\* importFromJson on a payload with data.nodes and data.edges arrays, called
\* when transactionQueue is a fulfilled promise
ImportFromJson(D, payload, mode, asc) ==
  LET Result(acc) ==
        [db |-> acc.db, success |-> acc.errors = <<>>,
         nodesImported |-> Len(acc.importedNodeIds),
         edgesImported |-> Len(acc.importedEdgeIds), errors |-> acc.errors,
         queueRejected |-> acc.queueRejected]
      Edges(acc) == Result(ImportEdges(acc, payload.edges, mode, asc))
  IN Edges(ImportNodes(
       [db |-> IF mode = "REPLACE" THEN ClearTables(D) ELSE D, errors |-> <<>>,
        importedNodeIds |-> <<>>, importedEdgeIds |-> <<>>, queueRejected |-> FALSE],
       payload.nodes, mode))

\* what getNodes() and getEdges() show of a store: ids, types, labels, endpoints, properties
NodeViews(D) ==
  {[id |-> v.id, label |-> v.label, type |-> v.type, properties |-> v.properties] :
     v \in Elements(GetNodes(D, TRUE))}

EdgeViews(D) ==
  {[id |-> v.id, type |-> v.type, source_id |-> v.source_id, target_id |-> v.target_id,
    properties |-> v.properties] : v \in Elements(GetEdges(D, TRUE))}

\* res is the result of importing an export of D: it succeeded and reads as D does
ReadsAs(D, res) ==
  /\ res.success
  /\ NodeViews(res.db) = NodeViews(D)
  /\ EdgeViews(res.db) = EdgeViews(D)

\* C15: for every reachable store S, importing exportToJson(S) in REPLACE mode
\* into an empty store succeeds and gives a store whose getNodes() and
\* getEdges() show the same node and edge ids, types, labels, endpoints and
\* properties as S.
C15_ExportImportRoundTrip ==
  \A asc \in BOOLEAN, asc2 \in BOOLEAN :
    ReadsAs(db, ImportFromJson(InitDb, ExportToJson(db, asc), "REPLACE", asc2))

\* the export of the store has an edge that the import into an empty store rejects
C15_ExportedEdgeNotImported ==
  /\ ~ImportFromJson(InitDb, ExportToJson(db, TRUE), "REPLACE", TRUE).success
  /\ ImportFromJson(InitDb, ExportToJson(db, TRUE), "REPLACE", TRUE).edgesImported
       < Len(ExportToJson(db, TRUE).edges)

\* Longest maxDepth and depth given to the traversals.
MaxDepth == 3

\* a value that is neither null nor the empty string
Present(v) == v # NULL /\ v # EMPTY

\* adjacencyList.get(nodeId) of findPath: the edges leaving nodeId, in the order of getEdges
OutEdges(edges, nodeId) ==
  LET Leaves(e) == Present(e.source_id) /\ Present(e.target_id) /\ e.source_id = nodeId
  IN SelectSeq(edges, Leaves)

\* the loop over the neighbours of a dequeued item; s = [queue, visited]
RECURSIVE EnqueueNeighbours(_, _, _)
EnqueueNeighbours(s, path, neighbours) ==
  IF neighbours = <<>> THEN s
  ELSE EnqueueNeighbours(
         IF Head(neighbours).target_id \in s.visited THEN s
         ELSE [queue |-> Append(s.queue,
                           [nodeId |-> Head(neighbours).target_id,
                            path |-> Append(path, Head(neighbours))]),
               visited |-> s.visited \cup {Head(neighbours).target_id}],
         path, Tail(neighbours))

\* the inner loop of findPath: levelSize items are taken from the queue
RECURSIVE SearchLevel(_, _, _, _)
SearchLevel(edges, endId, s, levelSize) ==
  IF levelSize = 0 THEN [found |-> FALSE, path |-> <<>>, s |-> s]
  ELSE IF Head(s.queue).nodeId = endId
    THEN [found |-> TRUE, path |-> Head(s.queue).path, s |-> s]
  ELSE SearchLevel(edges, endId,
         EnqueueNeighbours([queue |-> Tail(s.queue), visited |-> s.visited],
                           Head(s.queue).path, OutEdges(edges, Head(s.queue).nodeId)),
         levelSize - 1)

\* for (depth = 0; depth < maxDepth && queue.length > 0; depth++)
RECURSIVE Search(_, _, _, _, _)
Search(edges, endId, s, depth, maxDepth) ==
  IF depth >= maxDepth \/ s.queue = <<>> THEN <<>>
  ELSE LET After(l) == IF l.found THEN l.path
                       ELSE Search(edges, endId, l.s, depth + 1, maxDepth)
       IN After(SearchLevel(edges, endId, s, Len(s.queue)))

\* findPath: the edges of the path found, or the empty sequence
FindPath(D, startId, endId, maxDepth, asc) ==
  IF ~NodeExists(D, startId) \/ ~NodeExists(D, endId) THEN Fail(D, "NodeNotFoundError")
  ELSE Ok(D, Search(GetEdges(D, asc), endId,
                    [queue |-> <<[nodeId |-> startId, path |-> <<>>]>>, visited |-> {startId}],
                    0, maxDepth))

\* the nodes that directed paths of at most k edges of getEdges lead to from the nodes S
RECURSIVE ReachedWithin(_, _, _)
ReachedWithin(edges, S, k) ==
  IF k = 0 THEN S
  ELSE ReachedWithin(edges,
         S \cup {e.target_id : e \in {x \in Elements(edges) :
                    Present(x.source_id) /\ Present(x.target_id) /\ x.source_id \in S}},
         k - 1)

\* path is a directed path of edges from startId to endId
IsPath(path, startId, endId) ==
  /\ path # <<>>
  /\ path[1].source_id = startId
  /\ path[Len(path)].target_id = endId
  /\ \A i \in 1..(Len(path) - 1) : path[i].target_id = path[i + 1].source_id

\* path is what findPath owes for edges, startId # endId and maxDepth
IsShortestPathOrNone(edges, path, startId, endId, maxDepth) ==
  IF endId \notin ReachedWithin(edges, {startId}, maxDepth) THEN path = <<>>
  ELSE /\ IsPath(path, startId, endId)
       /\ \A e \in Elements(path) : e \in Elements(edges)
       /\ endId \notin ReachedWithin(edges, {startId}, Len(path) - 1)

\* C16: in every reachable store, for different nodes start and end,
\* findPath(start, end, maxDepth) returns the empty list exactly when no
\* directed path of at most maxDepth edges leads from start to end, and
\* otherwise returns a shortest such path as its sequence of edges.
C16_FindPathShortestWithinDepth ==
  \A startId \in DOMAIN db.nodes, endId \in DOMAIN db.nodes, asc \in BOOLEAN :
    \A maxDepth \in 1..MaxDepth :
      startId # endId =>
        IsShortestPathOrNone(GetEdges(db, asc), FindPath(db, startId, endId, maxDepth, asc).value,
                             startId, endId, maxDepth)

\* a path of two edges leads from one node to another, and findPath with maxDepth 2 returns nothing
C16_TwoEdgePathNotFound ==
  \E startId \in DOMAIN db.nodes, endId \in DOMAIN db.nodes :
    /\ startId # endId
    /\ endId \in ReachedWithin(GetEdges(db, TRUE), {startId}, 2)
    /\ endId \notin ReachedWithin(GetEdges(db, TRUE), {startId}, 1)
    /\ FindPath(db, startId, endId, 2, TRUE).err = "none"
    /\ FindPath(db, startId, endId, 2, TRUE).value = <<>>

\* an adjacency list that would follow the edges in their direction only
RECURSIVE TargetsOf(_, _)
TargetsOf(edges, id) ==
  IF edges = <<>> THEN <<>>
  ELSE (IF Present(Head(edges).source_id) /\ Head(edges).source_id = id
           /\ Present(Head(edges).target_id)
          THEN <<Head(edges).target_id>> ELSE <<>>)
       \o TargetsOf(Tail(edges), id)

\* adjacencyList.get(id) of findConnectedNodes: for each edge of getEdges, its
\* target when it leaves id and its source when it enters id
RECURSIVE AdjacentTo(_, _)
AdjacentTo(edges, id) ==
  IF edges = <<>> THEN <<>>
  ELSE (IF Present(Head(edges).source_id) /\ Head(edges).source_id = id
           /\ Present(Head(edges).target_id)
          THEN <<Head(edges).target_id>> ELSE <<>>)
       \o (IF Present(Head(edges).target_id) /\ Head(edges).target_id = id
              /\ Present(Head(edges).source_id)
             THEN <<Head(edges).source_id>> ELSE <<>>)
       \o AdjacentTo(Tail(edges), id)

\* the loop over the neighbours of a dequeued node; s = [queue, visited]
RECURSIVE EnqueueUnvisited(_, _, _)
EnqueueUnvisited(s, neighbours, level) ==
  IF neighbours = <<>> THEN s
  ELSE EnqueueUnvisited(
         IF Head(neighbours) \in s.visited THEN s
         ELSE [queue |-> Append(s.queue, [id |-> Head(neighbours), level |-> level]),
               visited |-> s.visited \cup {Head(neighbours)}],
         Tail(neighbours), level)

\* while (queue.length > 0): the ids of connectedNodes, in the order they are pushed
RECURSIVE Visit(_, _, _, _, _)
Visit(D, edges, depth, s, connectedNodes) ==
  IF s.queue = <<>> THEN connectedNodes
  ELSE Visit(D, edges, depth,
         IF Head(s.queue).level < depth
           THEN EnqueueUnvisited([queue |-> Tail(s.queue), visited |-> s.visited],
                                 AdjacentTo(edges, Head(s.queue).id), Head(s.queue).level + 1)
           ELSE [queue |-> Tail(s.queue), visited |-> s.visited],
         IF Head(s.queue).level > 0 /\ NodeExists(D, Head(s.queue).id)
           THEN Append(connectedNodes, Head(s.queue).id) ELSE connectedNodes)

\* findConnectedNodes: the ids of the nodes returned
FindConnectedNodes(D, nodeId, depth, asc) ==
  IF ~NodeExists(D, nodeId) THEN Fail(D, "NodeNotFoundError")
  ELSE Ok(D, Visit(D, GetEdges(D, asc), depth,
                   [queue |-> <<[id |-> nodeId, level |-> 0]>>, visited |-> {nodeId}], <<>>))

\* the ids that paths of at most k edges of getEdges, taken in either direction, lead to from S
RECURSIVE ConnectedWithin(_, _, _)
ConnectedWithin(edges, S, k) ==
  IF k = 0 THEN S
  ELSE ConnectedWithin(edges,
         S \cup {e.target_id : e \in {x \in Elements(edges) :
                    Present(x.source_id) /\ Present(x.target_id) /\ x.source_id \in S}}
           \cup {e.source_id : e \in {x \in Elements(edges) :
                    Present(x.source_id) /\ Present(x.target_id) /\ x.target_id \in S}},
         k - 1)

\* found lists, once each, the nodes of D other than nodeId within depth edges of it
ListsNodesWithin(D, edges, found, nodeId, depth) ==
  /\ \A i \in DOMAIN found, j \in DOMAIN found : found[i] = found[j] => i = j
  /\ Elements(found) = (ConnectedWithin(edges, {nodeId}, depth) \cap DOMAIN D.nodes) \ {nodeId}

\* C17: in every reachable store, findConnectedNodes(n, depth) returns, exactly
\* once each, the nodes at undirected distance 1..depth from n over the edges
\* of getEdges, and neither n itself nor a node farther away.
C17_ConnectedNodesWithinDepth ==
  \A nodeId \in DOMAIN db.nodes, asc \in BOOLEAN :
    \A depth \in 0..MaxDepth :
      ListsNodesWithin(db, GetEdges(db, asc), FindConnectedNodes(db, nodeId, depth, asc).value,
                       nodeId, depth)

\* a node two edges away, against an edge's direction, is returned for depth 2 and not for depth 1
C17_NodeAtDistanceTwoFound ==
  \E nodeId \in DOMAIN db.nodes, m \in DOMAIN db.nodes :
    /\ m \in Elements(FindConnectedNodes(db, nodeId, 2, TRUE).value)
    /\ m \notin Elements(FindConnectedNodes(db, nodeId, 1, TRUE).value)
    /\ m \notin ReachedWithin(GetEdges(db, TRUE), {nodeId}, 2)

\* the catch around addEdgeOperation: a NodeNotFoundError is rethrown, anything else wrapped
AddEdgeCatch(kind) ==
  IF kind = "NodeNotFoundError" THEN kind ELSE "DatabaseError"

\* addEdge(edge, isTransaction): the operation run directly, or handed to
\* this.db.transaction(), whose catch replaces the error the callback throws
AddEdge(D, edge, isTransaction) ==
  LET Settle(r) ==
        IF r.err = "none" THEN r
        ELSE IF isTransaction
          THEN Fail(D, WrapTransactionFailure(MkError(AddEdgeCatch(r.err), "none")).kind)
        ELSE Fail(D, AddEdgeCatch(r.err))
  IN Settle(AddEdgeOperation(D, edge))

\* the ids a caller may give as an endpoint: null, a node, or an id no node has
EndpointIds == {NULL} \cup (1..(MaxNodeIds + 1))

\* r is what addEdge owes on D for an edge from source to target with properties props
AddedOrNotFound(D, r, source, target, props) ==
  IF (source # NULL /\ ~NodeExists(D, source)) \/ (target # NULL /\ ~NodeExists(D, target))
    THEN /\ r.err = "NodeNotFoundError"
         /\ r.db = D
    ELSE /\ r.err = "none"
         /\ r.value \notin DOMAIN D.relationships
         /\ DOMAIN r.db.relationships = DOMAIN D.relationships \cup {r.value}
         /\ \A e \in DOMAIN D.relationships : r.db.relationships[e] = D.relationships[e]
         /\ r.db.relationships[r.value] =
              [source_id |-> source, target_id |-> target, type |-> "link"]
         /\ EdgeProperties(r.db, r.value) = (IF props = None THEN {} ELSE props[1])
         /\ \A e \in DOMAIN D.relationships : EdgeProperties(r.db, e) = EdgeProperties(D, e)
         /\ r.db.nodes = D.nodes /\ r.db.node_properties = D.node_properties

\* C18: in every reachable store, addEdge with a non-null source_id or
\* target_id that names no node fails with NodeNotFoundError and writes
\* nothing; with endpoints that exist or are null it inserts exactly one edge
\* with exactly the given properties and changes nothing else.
C18_AddEdgeChecksEndpoints ==
  \A source \in EndpointIds, target \in EndpointIds, props \in CreateProperties :
    AddedOrNotFound(db,
      AddEdge(db, [id |-> 0, source_id |-> source, target_id |-> target,
                   type |-> "link", properties |-> props], TRUE),
      source, target, props)

\* addEdge between a node and an id no node has is rejected with a DatabaseError
C18_NotFoundWrappedByTransaction ==
  \E source \in DOMAIN db.nodes, target \in EndpointIds \ {NULL} :
    /\ ~NodeExists(db, target)
    /\ AddEdge(db, [id |-> 0, source_id |-> source, target_id |-> target,
                    type |-> "link", properties |-> None], TRUE).err = "DatabaseError"

\* the property maps given to the updates that are compared with what is stored
PropertyMaps == {{}, {<<"j", 2>>}, {<<"j", 2>>, <<"k", 3>>}}

\* the properties stored for what an edge id names: those of the RELATIONSHIP_TYPE
\* node for a structured relationship, those of the row of relationships otherwise
StoredEdgeProperties(D, id) ==
  IF IsRelationshipNode(D, id) THEN NodeProperties(D, id) ELSE EdgeProperties(D, id)

\* r is the result of an update of D without a properties field
PropertiesUntouched(D, r) ==
  r.err = "none" =>
    /\ r.db.node_properties = D.node_properties
    /\ r.db.relationship_properties = D.relationship_properties

\* C19: in every reachable store, a successful updateNode or updateEdge with a
\* properties map P leaves exactly P as the stored properties of the entity,
\* and one without a properties field leaves every stored property as it was.
C19_UpdateReplacesProperties ==
  /\ \A n \in DOMAIN db.nodes :
       /\ \A P \in PropertyMaps :
            NodeProperties(
              UpdateNodeOperation(db, n, [NoNodeUpdates EXCEPT !.properties = Some(P)]).db, n) = P
       /\ PropertiesUntouched(db,
            UpdateNodeOperation(db, n, [NoNodeUpdates EXCEPT !.label = Some("Y")]))
  /\ \A e \in EdgeHandles, asc \in BOOLEAN :
       /\ \A P \in PropertyMaps :
            UpdateEdgeOperation(db, e, [NoEdgeUpdates EXCEPT !.properties = Some(P)], asc).err = "none"
              => StoredEdgeProperties(
                   UpdateEdgeOperation(db, e, [NoEdgeUpdates EXCEPT !.properties = Some(P)], asc).db,
                   e) = P
       /\ PropertiesUntouched(db,
            UpdateEdgeOperation(db, e, [NoEdgeUpdates EXCEPT !.type = Some("M")], asc))

\* an edge created with property k was updated with a map that has only j, next to a node updated likewise
C19_PropertiesReplaced ==
  /\ \E e \in DOMAIN db.relationships :
       db.relationships[e].type = "link" /\ EdgeProperties(db, e) = {<<"j", 2>>}
  /\ \E n \in DOMAIN db.nodes : NodeProperties(db, n) = {<<"j", 2>>}
  /\ \E n \in DOMAIN db.nodes : NodeProperties(db, n) = {<<"k", 1>>}

\* items of an import payload
PayloadNode(id) ==
  [id |-> id, label |-> "X", type |-> "note", properties |-> Some({<<"k", 1>>})]

PayloadEdge(id, source, target) ==
  [id |-> id, source_id |-> source, target_id |-> target, type |-> "link",
   properties |-> Some({})]

\* payloads of three nodes and two edges between imported nodes; an item whose
\* id an earlier item has is rejected by the store (primary key)
ImportPayloads ==
  {[nodes |-> <<PayloadNode(a), PayloadNode(b), PayloadNode(c)>>,
    edges |-> <<PayloadEdge(EdgeIdBase + 1, a, NULL), PayloadEdge(e, a, a)>>] :
     a \in 1..MaxNodeIds, b \in 1..MaxNodeIds, c \in 1..MaxNodeIds,
     e \in {EdgeIdBase + 1, EdgeIdBase + 2}}

NodeIdsOf(payload) == {payload.nodes[i].id : i \in DOMAIN payload.nodes}

EdgeIdsOf(payload) == {payload.edges[i].id : i \in DOMAIN payload.edges}

\* the items of the payload that the store rejects
RejectedItems(payload) ==
  (Len(payload.nodes) - Cardinality(NodeIdsOf(payload)))
    + (Len(payload.edges) - Cardinality(EdgeIdsOf(payload)))

\* res imported every item of the payload but the rejected ones, and reports those
ImportedAllButRejected(payload, res) ==
  /\ ~res.success
  /\ Len(res.errors) = RejectedItems(payload)
  /\ res.nodesImported = Cardinality(NodeIdsOf(payload))
  /\ res.edgesImported = Cardinality(EdgeIdsOf(payload))
  /\ DOMAIN res.db.nodes = NodeIdsOf(payload)
  /\ DOMAIN res.db.relationships = EdgeIdsOf(payload)

\* C20: in every reachable store, when the store rejects one item of a payload
\* imported in REPLACE mode, every other item is imported: success is false,
\* there is one error, nodesImported and edgesImported count the other items,
\* and these are in the store.
C20_OneFailureKeepsOtherItems ==
  \A payload \in ImportPayloads, asc \in BOOLEAN :
    RejectedItems(payload) = 1 =>
      ImportedAllButRejected(payload, ImportFromJson(db, payload, "REPLACE", asc))

\* a store with nodes is replaced by a payload whose second node is rejected:
\* the third node and both edges are reported as failed too
C20_ItemsAfterFailureRejected ==
  /\ DOMAIN db.nodes # {}
  /\ \E payload \in ImportPayloads :
       /\ RejectedItems(payload) = 1
       /\ payload.nodes[1].id = payload.nodes[2].id
       /\ ImportFromJson(db, payload, "REPLACE", TRUE).nodesImported = 1
       /\ ImportFromJson(db, payload, "REPLACE", TRUE).edgesImported = 0
       /\ Len(ImportFromJson(db, payload, "REPLACE", TRUE).errors) = 4
       /\ ImportFromJson(db, payload, "REPLACE", TRUE).queueRejected

\* C21: createEngine is invoked, and the schema set up, at most once while the
\* database is open, also when initialize is called while another initialize
\* call is in progress.
C21_CreateEngineOncePerOpen ==
  /\ lifecycle.createEngineCalls <= 1
  /\ lifecycle.setups <= 1

\* two initialize calls were in progress together: createEngine was invoked
\* twice and the schema set up twice, with no close in between
C21_SecondEngineCreated ==
  /\ lifecycle.createEngineCalls = 2
  /\ lifecycle.setups = 2
  /\ lifecycle.db = 2
  /\ lifecycle.engines = 2

\* call i settled without its callback ever being run
NeverRan(i) == calls[i].outcome # "pending" /\ calls[i].path = "none"

\* C22: a transaction that failed does not keep later ones from running: every
\* call of transaction() that has settled had its callback run (it began, or
\* ran directly), and so has an outcome of its own.
C22_LaterTransactionsRun ==
  \A i \in CallIds : ~NeverRan(i)

\* an operation submitted after a failed one was rejected with that failure's
\* error and its body never ran
C22_RejectedByEarlierFailure ==
  \E i \in CallIds :
    /\ NeverRan(i)
    /\ calls[i].parent = 0
    /\ calls[i].pred # 0
    /\ calls[calls[i].pred].threw # "none"
    /\ calls[i].err = calls[calls[i].pred].err
    /\ ~calls[i].wrote

\* C23: clear() (and importFromJson, which begins, commits and rolls back the
\* same way) never ends a transaction it did not begin: when its
\* beginTransaction fails because a transaction is active, that transaction
\* stays active, the flag stays set and the store keeps the other caller's writes.
C23_FailedBeginLeavesTransaction ==
  [][(ClearBegin /\ isInTransaction) =>
       (isInTransaction' /\ connTxActive' = connTxActive /\ store' = store)]_vars

\* an operation is in the body of the transaction it began, has written, and
\* its transaction is gone with its writes
C23_TransactionEndedByClear ==
  \E i \in CallIds :
    /\ InBody(i) /\ calls[i].path = "top" /\ calls[i].wrote
    /\ ~isInTransaction /\ ~connTxActive
    /\ <<i, 1>> \notin store

\* C24: an operation a caller submits never runs inside a transaction another
\* caller opened: every top-level call of transaction() whose callback has run
\* began a transaction of its own, and did not take the branch for a flag that
\* someone else had set.
C24_TopLevelBeginsItsOwn ==
  \A i \in CallIds : calls[i].parent = 0 => calls[i].path # "direct"

\* clear() has a transaction open, and an operation submitted by another caller
\* has written inside it and reported success without a begin or commit of its own
C24_RanInsideClearsTransaction ==
  \E i \in CallIds :
    /\ calls[i].parent = 0 /\ calls[i].path = "direct"
    /\ calls[i].outcome = "fulfilled" /\ calls[i].wrote /\ calls[i].commit = "none"
    /\ clearPc = "begun"

\* C25: a call of transaction() whose commit on the connection succeeded
\* resolves: no call is rejected after its writes were committed, also when
\* persistData fails after the commit.
C25_CommittedCallResolves ==
  \A i \in CallIds : calls[i].commit = "ok" => calls[i].outcome # "rejected"

\* the operation wrote, its transaction was committed, and the call rejected
\* with the DatabaseError of the coordinator: the write is in the store
C25_RejectedAfterCommit ==
  \E i \in CallIds :
    /\ calls[i].commit = "ok" /\ calls[i].outcome = "rejected"
    /\ calls[i].threw = "none" /\ calls[i].err.kind = "DatabaseError"
    /\ calls[i].wrote /\ <<i, 1>> \in calls[i].post

\* C26: in every reachable store, deleteEdge on the id of either _relay edge
\* of a well-formed structured relationship r removes the whole relationship:
\* afterwards neither the RELATIONSHIP_TYPE node r nor any _relay edge of r exists.
C26_DeleteRelayRemovesRelationship ==
  \A r \in RelationshipNodes(db) :
    WellFormedRelationship(db, r) =>
      \A e \in RelaysOf(db, r), asc \in BOOLEAN :
        /\ ~NodeExists(DeleteEdge(db, e, asc).db, r)
        /\ RelaysOf(db, r) \cap DOMAIN DeleteEdge(db, e, asc).db.relationships = {}

\* deleteEdge on one _relay edge succeeds and leaves the RELATIONSHIP_TYPE
\* node with its other _relay edge
C26_HalfRelationshipRemains ==
  \E r \in RelationshipNodes(db) :
    /\ WellFormedRelationship(db, r)
    /\ \E e \in RelaysOf(db, r) :
         /\ DeleteEdge(db, e, TRUE).err = "none"
         /\ IsRelationshipNode(DeleteEdge(db, e, TRUE).db, r)
         /\ RelaysOf(DeleteEdge(db, e, TRUE).db, r) = RelaysOf(db, r) \ {e}
         /\ Cardinality(RelaysOf(DeleteEdge(db, e, TRUE).db, r)) = 1

\* the node ids a caller can re-point a relationship to
PlainNodes(D) == DOMAIN D.nodes \ RelationshipNodes(D)

\* res is D with the source of r's incoming leg set to X and nothing else changed
SourceRepointed(D, r, X, res, asc) ==
  /\ res.err = "none"
  /\ res.db.nodes = D.nodes
  /\ \A i \in RelaysInto(D, r) :
       res.db.relationships = [D.relationships EXCEPT ![i].source_id = X]
  /\ GetEdge(res.db, r, asc).err = "none"
  /\ GetEdge(res.db, r, asc).value.source_id = X
  /\ GetEdge(res.db, r, asc).value.target_id = GetEdge(D, r, asc).value.target_id

\* res is D with the target of r's outgoing leg set to Y and nothing else changed
TargetRepointed(D, r, Y, res, asc) ==
  /\ res.err = "none"
  /\ res.db.nodes = D.nodes
  /\ \A o \in RelaysOutOf(D, r) :
       res.db.relationships = [D.relationships EXCEPT ![o].target_id = Y]
  /\ GetEdge(res.db, r, asc).err = "none"
  /\ GetEdge(res.db, r, asc).value.target_id = Y
  /\ GetEdge(res.db, r, asc).value.source_id = GetEdge(D, r, asc).value.source_id

\* C27: in every reachable store and for either row order, updateEdge(r,
\* {source_id: X}) on a well-formed structured relationship r changes only the
\* source of its incoming _relay leg, updateEdge(r, {target_id: Y}) only the
\* target of its outgoing leg, and getEdge(r) then reports the new endpoint
\* with the other one unchanged.
C27_UpdateRepointsTheRightLeg ==
  \A r \in RelationshipNodes(db) :
    WellFormedRelationship(db, r) =>
      \A X \in PlainNodes(db), asc \in BOOLEAN :
        /\ SourceRepointed(db, r, X,
             UpdateEdgeOperation(db, r, [NoEdgeUpdates EXCEPT !.source_id = Some(X)], asc), asc)
        /\ TargetRepointed(db, r, X,
             UpdateEdgeOperation(db, r, [NoEdgeUpdates EXCEPT !.target_id = Some(X)], asc), asc)

\* with the outgoing leg returned first, updateEdge(r, {source_id: X}) rewrites
\* the source of the outgoing leg: r keeps its old source and loses its target
C27_WrongLegRepointed ==
  \E r \in RelationshipNodes(db) :
    /\ WellFormedRelationship(db, r)
    /\ \E X \in PlainNodes(db), o \in RelaysOutOf(db, r) :
         /\ X # GetEdge(db, r, FALSE).value.source_id
         /\ UpdateEdgeOperation(db, r, [NoEdgeUpdates EXCEPT !.source_id = Some(X)], FALSE).err = "none"
         /\ UpdateEdgeOperation(db, r, [NoEdgeUpdates EXCEPT !.source_id = Some(X)], FALSE).db.relationships
              = [db.relationships EXCEPT ![o].source_id = X]
         /\ GetEdge(UpdateEdgeOperation(db, r, [NoEdgeUpdates EXCEPT !.source_id = Some(X)], FALSE).db,
                    r, FALSE).err = "EdgeNotFoundError"

\* C28: in every reachable store and for either row order, the properties of
\* the structured edge view that getEdge and getEdges return for a
\* RELATIONSHIP_TYPE node equal the property map stored on that node.
C28_StructuredViewHasNodeProperties ==
  \A asc \in BOOLEAN :
    /\ \A r \in RelationshipNodes(db) :
         GetEdge(db, r, asc).err = "none" =>
           GetEdge(db, r, asc).value.properties = NodeProperties(db, r)
    /\ \A i \in DOMAIN GetEdges(db, asc) :
         GetEdges(db, asc)[i].isStructured =>
           GetEdges(db, asc)[i].properties = NodeProperties(db, GetEdges(db, asc)[i].id)

\* a well-formed relationship whose node stores properties, read by getEdge
\* and by getEdges with an empty property map
C28_StoredPropertiesNotRead ==
  \E r \in RelationshipNodes(db) :
    /\ WellFormedRelationship(db, r)
    /\ NodeProperties(db, r) # {}
    /\ GetEdge(db, r, TRUE).err = "none"
    /\ GetEdge(db, r, TRUE).value.properties = {}
    /\ \E i \in DOMAIN GetEdges(db, TRUE) :
         GetEdges(db, TRUE)[i].id = r /\ GetEdges(db, TRUE)[i].properties = {}

\* getNode: the row of nodes with this id and its properties
GetNode(D, id) ==
  IF ~NodeExists(D, id) THEN Fail(D, "Error")
  ELSE Ok(D, [id |-> id,
              label |-> D.nodes[id].label,
              type |-> D.nodes[id].type,
              is_independent |-> D.nodes[id].is_independent,
              properties |-> NodeProperties(D, id)])

\* C29: in every reachable store and for either row order, getNodes and
\* getNode never return a RELATIONSHIP_TYPE node, and getEdges and getEdge
\* never return a _relay edge.
C29_ReadsHideEncoding ==
  \A asc \in BOOLEAN :
    /\ \A i \in DOMAIN GetNodes(db, asc) : GetNodes(db, asc)[i].type # RELATIONSHIP_TYPE
    /\ \A n \in DOMAIN db.nodes :
         GetNode(db, n).err = "none" => GetNode(db, n).value.type # RELATIONSHIP_TYPE
    /\ \A i \in DOMAIN GetEdges(db, asc) : GetEdges(db, asc)[i].type # RELAY
    /\ \A e \in DOMAIN db.relationships :
         GetEdge(db, e, asc).err = "none" => GetEdge(db, e, asc).value.type # RELAY

\* a well-formed relationship whose RELATIONSHIP_TYPE node getNodes and getNode
\* return, and whose _relay edge getEdge returns as a plain edge
C29_EncodingRead ==
  \E r \in RelationshipNodes(db) :
    /\ WellFormedRelationship(db, r)
    /\ \E i \in DOMAIN GetNodes(db, TRUE) :
         GetNodes(db, TRUE)[i].id = r /\ GetNodes(db, TRUE)[i].type = RELATIONSHIP_TYPE
    /\ GetNode(db, r).err = "none" /\ GetNode(db, r).value.type = RELATIONSHIP_TYPE
    /\ \E e \in RelaysOf(db, r) :
         /\ GetEdge(db, e, TRUE).err = "none"
         /\ GetEdge(db, e, TRUE).value.type = RELAY
         /\ ~GetEdge(db, e, TRUE).value.isStructured

\* the ids getEdges is to return: RELATIONSHIP_TYPE nodes with exactly two
\* _relay rows, and the rows of relationships that are not _relay edges
VisibleEdgeIds(D) ==
  {n \in RelationshipNodes(D) : Cardinality(RelaysOf(D, n)) = 2}
    \cup {e \in DOMAIN D.relationships : D.relationships[e].type # RELAY}

\* C30: in every reachable store and for either row order, getEdges returns
\* exactly one structured view per RELATIONSHIP_TYPE node that has exactly two
\* _relay edges, one plain view per edge that is not a _relay edge, and nothing
\* else; a RELATIONSHIP_TYPE node with another number of _relay edges
\* contributes no edge and getEdge on its id fails with EdgeNotFoundError.
C30_GetEdgesListsVisibleEdges ==
  \A asc \in BOOLEAN :
    /\ {GetEdges(db, asc)[i].id : i \in DOMAIN GetEdges(db, asc)} = VisibleEdgeIds(db)
    /\ Len(GetEdges(db, asc)) = Cardinality(VisibleEdgeIds(db))
    /\ \A i \in DOMAIN GetEdges(db, asc) :
         GetEdges(db, asc)[i].isStructured <=> IsRelationshipNode(db, GetEdges(db, asc)[i].id)
    /\ \A r \in RelationshipNodes(db) :
         Cardinality(RelaysOf(db, r)) # 2 => GetEdge(db, r, asc).err = "EdgeNotFoundError"

\* a store with a plain edge and a RELATIONSHIP_TYPE node with two _relay edges,
\* both listed by getEdges; once deleteEdge has removed one _relay edge the
\* node is no longer listed and getEdge on it fails
C30_WholeThenHalfRelationship ==
  /\ \E e \in DOMAIN db.relationships :
       /\ db.relationships[e].type # RELAY
       /\ \E i \in DOMAIN GetEdges(db, TRUE) : GetEdges(db, TRUE)[i].id = e
  /\ \E r \in RelationshipNodes(db) :
       /\ Cardinality(RelaysOf(db, r)) = 2
       /\ \E i \in DOMAIN GetEdges(db, TRUE) :
            GetEdges(db, TRUE)[i].id = r /\ GetEdges(db, TRUE)[i].isStructured
       /\ \E e \in RelaysOf(db, r) :
            /\ Cardinality(RelaysOf(DeleteEdge(db, e, TRUE).db, r)) = 1
            /\ GetEdge(DeleteEdge(db, e, TRUE).db, r, TRUE).err = "EdgeNotFoundError"
            /\ \A i \in DOMAIN GetEdges(DeleteEdge(db, e, TRUE).db, TRUE) :
                 GetEdges(DeleteEdge(db, e, TRUE).db, TRUE)[i].id # r

\* a MERGE payload of one node and one new edge
MergePayload(n, source, target) ==
  [nodes |-> <<PayloadNode(n)>>, edges |-> <<PayloadEdge(0, source, target)>>]

\* C31: in every reachable store and for either row order, importFromJson in
\* MERGE mode imports the edge of a payload when each endpoint is a node of
\* the payload or a node of the store, and skips it with one error otherwise.
C31_MergeImportsEdgeToExistingNode ==
  \A n \in 1..MaxNodeIds, s \in 1..MaxNodeIds, t \in 1..MaxNodeIds, asc \in BOOLEAN :
    IF {s, t} \subseteq DOMAIN db.nodes \cup {n}
      THEN /\ ImportFromJson(db, MergePayload(n, s, t), "MERGE", asc).edgesImported = 1
           /\ ImportFromJson(db, MergePayload(n, s, t), "MERGE", asc).errors = <<>>
      ELSE /\ ImportFromJson(db, MergePayload(n, s, t), "MERGE", asc).edgesImported = 0
           /\ ImportFromJson(db, MergePayload(n, s, t), "MERGE", asc).errors = <<<<"edge", 0>>>>

\* the store holds node t, the payload node n: the edge n -> t is skipped with
\* an error although both endpoints exist after the nodes were imported
C31_EdgeToExistingNodeSkipped ==
  \E n \in 1..MaxNodeIds, t \in DOMAIN db.nodes :
    /\ t # n /\ ~IsRelationshipNode(db, t)
    /\ ImportFromJson(db, MergePayload(n, n, t), "MERGE", TRUE).nodesImported = 1
    /\ ImportFromJson(db, MergePayload(n, n, t), "MERGE", TRUE).edgesImported = 0
    /\ ImportFromJson(db, MergePayload(n, n, t), "MERGE", TRUE).errors = <<<<"edge", 0>>>>
    /\ {n, t} \subseteq DOMAIN ImportFromJson(db, MergePayload(n, n, t), "MERGE", TRUE).db.nodes
    /\ ImportFromJson(db, MergePayload(n, n, t), "MERGE", TRUE).db.relationships = db.relationships

\* importFromJson up to its return: db.commitTransaction() at the end of the
\* try either succeeds, or the connection's commit throws, the catch rolls
\* the transaction back and the call returns the "Transaction failed" result
ImportFromJsonCommitting(D, payload, mode, asc, commitOk) ==
  IF commitOk THEN ImportFromJson(D, payload, mode, asc)
  ELSE [db |-> D, success |-> FALSE, nodesImported |-> 0, edgesImported |-> 0,
        errors |-> <<<<"transaction", 0>>>>,
        queueRejected |-> ImportFromJson(D, payload, mode, asc).queueRejected]

\* the store of res holds the imported items of the payload and nothing else
ReplacedBy(payload, res) ==
  /\ DOMAIN res.db.nodes \subseteq NodeIdsOf(payload)
  /\ Cardinality(DOMAIN res.db.nodes) = res.nodesImported
  /\ \A n \in DOMAIN res.db.nodes :
       res.db.nodes[n].label = "X" /\ res.db.nodes[n].type = "note"
  /\ res.db.node_properties = {<<n, "k", Stringify(1)>> : n \in DOMAIN res.db.nodes}
  /\ DOMAIN res.db.relationships \subseteq EdgeIdsOf(payload)
  /\ Cardinality(DOMAIN res.db.relationships) = res.edgesImported
  /\ \A e \in DOMAIN res.db.relationships :
       \E i \in DOMAIN payload.edges :
         /\ payload.edges[i].id = e
         /\ res.db.relationships[e] =
              [source_id |-> payload.edges[i].source_id,
               target_id |-> payload.edges[i].target_id, type |-> payload.edges[i].type]
  /\ res.db.relationship_properties = {}

-----------------------------------------------------------------------------
(* moveRelationships and the two reads it is built on.                     *)

\* getEdgesForNode, part 1, one row of allDirectEdges: a _relay row e touching
\* nodeId gives one structured view per relay row on the other side of its
\* RELATIONSHIP_TYPE node; acc = [edges, processedEdgeIds]
RelayRowViews(D, nodeId, acc, e, asc) ==
  LET row == D.relationships[e]
      isOutgoing == row.source_id = nodeId
      relNodeId == IF isOutgoing THEN row.target_id ELSE row.source_id
      Other(o) ==
        IF isOutgoing
          THEN D.relationships[o].target_id # nodeId /\ D.relationships[o].target_id # NULL
          ELSE D.relationships[o].source_id # nodeId /\ D.relationships[o].source_id # NULL
      otherRelayEdges ==
        SelectSeq(Rows(IF isOutgoing THEN RelaysOutOf(D, relNodeId)
                                     ELSE RelaysInto(D, relNodeId), asc), Other)
      View(o) ==
        [id |-> relNodeId,
         source_id |-> IF isOutgoing THEN nodeId ELSE D.relationships[o].source_id,
         target_id |-> IF isOutgoing THEN D.relationships[o].target_id ELSE nodeId,
         type |-> D.nodes[relNodeId].label, isStructured |-> TRUE]
  IN IF e \in acc.processedEdgeIds \/ row.type # RELAY THEN acc
     ELSE IF ~IsRelationshipNode(D, relNodeId) THEN acc
     ELSE IF otherRelayEdges = <<>> THEN acc
     ELSE [edges |-> acc.edges \o [i \in DOMAIN otherRelayEdges |-> View(otherRelayEdges[i])],
           processedEdgeIds |-> acc.processedEdgeIds \cup {e} \cup Elements(otherRelayEdges)]

RECURSIVE StructuredEdgesForNode(_, _, _, _, _)
StructuredEdgesForNode(D, nodeId, acc, rows, asc) ==
  IF rows = <<>> THEN acc
  ELSE StructuredEdgesForNode(D, nodeId, RelayRowViews(D, nodeId, acc, Head(rows), asc),
                              Tail(rows), asc)

\* getEdgesForNode: the structured views, then the rows that are not _relay edges
GetEdgesForNode(D, nodeId, asc) ==
  IF ~NodeExists(D, nodeId) THEN Fail(D, "NodeNotFoundError")
  ELSE
    LET allDirectEdges ==
          Rows({e \in DOMAIN D.relationships :
                  D.relationships[e].source_id = nodeId \/ D.relationships[e].target_id = nodeId},
               asc)
        Plain(e) == D.relationships[e].type # RELAY
        plainRows == SelectSeq(allDirectEdges, Plain)
        structured ==
          StructuredEdgesForNode(D, nodeId, [edges |-> <<>>, processedEdgeIds |-> {}],
                                 allDirectEdges, asc)
    IN Ok(D, structured.edges \o
              [i \in DOMAIN plainRows |->
                 [id |-> plainRows[i],
                  source_id |-> D.relationships[plainRows[i]].source_id,
                  target_id |-> D.relationships[plainRows[i]].target_id,
                  type |-> D.relationships[plainRows[i]].type, isStructured |-> FALSE]])

\* the labels of the RELATIONSHIP_TYPE nodes reached by a _relay row from a
\* and left by a _relay row to b
StructuredTypesFromTo(D, a, b) ==
  {D.nodes[r].label : r \in {n \in RelationshipNodes(D) :
     /\ \E f \in RelaysInto(D, n) : D.relationships[f].source_id = a
     /\ \E s \in RelaysOutOf(D, n) : D.relationships[s].target_id = b}}

\* getEdgesBetweenNodes, as moveRelationships uses it: the types of the edges
\* it returns, structured in either direction and plain in either direction
GetEdgesBetweenNodes(D, sourceId, targetId) ==
  IF ~NodeExists(D, sourceId) \/ ~NodeExists(D, targetId) THEN Fail(D, "NodeNotFoundError")
  ELSE Ok(D, StructuredTypesFromTo(D, sourceId, targetId)
               \cup StructuredTypesFromTo(D, targetId, sourceId)
               \cup {D.relationships[e].type : e \in {x \in DOMAIN D.relationships :
                       /\ D.relationships[x].type # RELAY
                       /\ \/ /\ D.relationships[x].source_id = sourceId
                             /\ D.relationships[x].target_id = targetId
                          \/ /\ D.relationships[x].source_id = targetId
                             /\ D.relationships[x].target_id = sourceId}})

\* one turn of the loop of moveRelationships; r is the result so far
MoveEdge(r, edge, fromNodeId, toNodeId, asc) ==
  LET newSourceId == IF edge.source_id = fromNodeId THEN toNodeId ELSE edge.source_id
      newTargetId == IF edge.target_id = fromNodeId THEN toNodeId ELSE edge.target_id
      updates == [NoEdgeUpdates EXCEPT
                    !.source_id = IF edge.source_id = fromNodeId THEN Some(toNodeId) ELSE None,
                    !.target_id = IF edge.target_id = fromNodeId THEN Some(toNodeId) ELSE None]
      AfterLookup(existingEdges) ==
        IF existingEdges.err # "none" THEN Fail(r.db, existingEdges.err)
        ELSE IF edge.type \in existingEdges.value THEN r
        ELSE UpdateEdgeOperation(r.db, edge.id, updates, asc)
  IN IF r.err # "none" THEN r
     ELSE IF newSourceId = newTargetId THEN r
     ELSE AfterLookup(GetEdgesBetweenNodes(r.db, newSourceId, newTargetId))

RECURSIVE MoveEdges(_, _, _, _, _)
MoveEdges(r, edges, fromNodeId, toNodeId, asc) ==
  IF edges = <<>> THEN r
  ELSE MoveEdges(MoveEdge(r, Head(edges), fromNodeId, toNodeId, asc), Tail(edges),
                 fromNodeId, toNodeId, asc)

\* moveRelationships in a transaction of its own: an error rolls back
MoveRelationships(D, fromNodeId, toNodeId, asc) ==
  LET Done(r) == IF r.err # "none" THEN Fail(D, r.err) ELSE Ok(r.db, 0)
  IN IF ~NodeExists(D, fromNodeId) \/ ~NodeExists(D, toNodeId)
       THEN Fail(D, "NodeNotFoundError")
       ELSE Done(MoveEdges(Ok(D, 0), GetEdgesForNode(D, fromNodeId, asc).value,
                           fromNodeId, toNodeId, asc))

\* the view v with its endpoints fromNodeId replaced by toNodeId
Repointed(v, fromNodeId, toNodeId) ==
  [v EXCEPT !.source_id = IF @ = fromNodeId THEN toNodeId ELSE @,
            !.target_id = IF @ = fromNodeId THEN toNodeId ELSE @]

\* v may stay as it is: re-pointing it would give a self-loop, or an edge of
\* its type between the new endpoints is in the store
MayStay(v, fromNodeId, toNodeId, after) ==
  \/ Repointed(v, fromNodeId, toNodeId).source_id = Repointed(v, fromNodeId, toNodeId).target_id
  \/ \E w \in after :
       /\ w.id # v.id /\ w.type = v.type
       /\ {w.source_id, w.target_id} =
            {Repointed(v, fromNodeId, toNodeId).source_id,
             Repointed(v, fromNodeId, toNodeId).target_id}

\* res is D with the logical edges touching fromNodeId re-pointed or kept
MovedOrKept(D, fromNodeId, toNodeId, res) ==
  /\ res.err = "none"
  /\ res.db.nodes = D.nodes
  /\ {v.id : v \in EdgeViews(res.db)} = {v.id : v \in EdgeViews(D)}
  /\ \A v \in EdgeViews(D) :
       IF v.source_id # fromNodeId /\ v.target_id # fromNodeId
         THEN v \in EdgeViews(res.db)
         ELSE \/ Repointed(v, fromNodeId, toNodeId) \in EdgeViews(res.db)
              \/ v \in EdgeViews(res.db) /\ MayStay(v, fromNodeId, toNodeId, EdgeViews(res.db))
  /\ \A w \in EdgeViews(res.db) : w.source_id = w.target_id => w \in EdgeViews(D)
  /\ \A w \in EdgeViews(res.db), x \in EdgeViews(res.db) :
       (w.id # x.id /\ w.type = x.type /\ w.source_id = x.source_id
          /\ w.target_id = x.target_id) => (w \in EdgeViews(D) /\ x \in EdgeViews(D))
  /\ \A r \in RelationshipNodes(D) :
       WellFormedRelationship(D, r) => WellFormedRelationship(res.db, r)

\* C33: in every reachable store and for either row order, moveRelationships(
\* from, to) between two existing nodes leaves every logical edge that does not
\* touch from unchanged, re-points every edge touching from to to or leaves it
\* unchanged when re-pointing would make a self-loop or a duplicate, creates no
\* self-loop or duplicate, and keeps well-formed relationships well-formed.
C33_MoveRepointsOrKeeps ==
  \A f \in PlainNodes(db), t \in PlainNodes(db), asc \in BOOLEAN :
    f # t => MovedOrKept(db, f, t, MoveRelationships(db, f, t, asc))

\* an edge of f kept its other endpoint as null after a KEEP_CONNECTED
\* deletion: moveRelationships(f, t) fails with NodeNotFoundError on the
\* duplicate lookup and no edge of f is re-pointed
C33_MoveFailsOnDetachedEdge ==
  \E f \in PlainNodes(db), t \in PlainNodes(db) :
    /\ f # t
    /\ \E e \in DOMAIN db.relationships :
         /\ db.relationships[e].type # RELAY
         /\ db.relationships[e].source_id = f /\ db.relationships[e].target_id = NULL
    /\ MoveRelationships(db, f, t, TRUE).err = "NodeNotFoundError"
    /\ MoveRelationships(db, f, t, TRUE).db = db

-----------------------------------------------------------------------------

\* convertToStructuredRelationship(edgeId, label, properties, isTransaction):
\* the operation run directly, or handed to this.db.transaction(), whose catch
\* replaces the error the callback throws
ConvertInTransaction(D, edgeId, relationshipLabel, properties, isTransaction, asc) ==
  LET Settle(r) ==
        IF r.err = "none" THEN r
        ELSE IF isTransaction
          THEN Fail(D, WrapTransactionFailure(MkError(r.err, "none")).kind)
        ELSE r
  IN Settle(ConvertToStructuredRelationship(D, edgeId, relationshipLabel, properties, asc))

\* the edges convertToStructuredRelationship is to refuse
NotConvertible(D) ==
  {e \in DOMAIN D.relationships :
     \/ D.relationships[e].type = RELAY
     \/ D.relationships[e].source_id = NULL
     \/ D.relationships[e].target_id = NULL}

\* C34: in every reachable store and for either row order,
\* convertToStructuredRelationship on a _relay edge, or on an edge whose
\* source_id or target_id is null, fails with ValidationError and leaves the
\* store unchanged.
C34_ConvertRefusesWithValidationError ==
  \A e \in NotConvertible(db), asc \in BOOLEAN :
    /\ ConvertInTransaction(db, e, Some("L"), None, TRUE, asc).err = "ValidationError"
    /\ ConvertInTransaction(db, e, Some("L"), None, TRUE, asc).db = db

\* a _relay edge and an edge with a null endpoint whose conversion is refused
\* with a DatabaseError, the store unchanged
C34_ValidationErrorWrapped ==
  /\ \E e \in DOMAIN db.relationships :
       /\ db.relationships[e].type = RELAY
       /\ ConvertInTransaction(db, e, Some("L"), None, TRUE, TRUE).err = "DatabaseError"
       /\ ConvertInTransaction(db, e, Some("L"), None, TRUE, TRUE).db = db
  /\ \E e \in DOMAIN db.relationships :
       /\ db.relationships[e].type # RELAY /\ db.relationships[e].target_id = NULL
       /\ ConvertInTransaction(db, e, Some("L"), None, TRUE, TRUE).err = "DatabaseError"

-----------------------------------------------------------------------------

\* validateStructuredRelationships, steps 2 to 5: the number of errors pushed
\* for the RELATIONSHIP_TYPE node nodeId
RelationshipNodeErrors(D, nodeId, asc) ==
  LET relayEdges == Rows(RelaysOf(D, nodeId), asc)
      incomingCount == Cardinality(RelaysInto(D, nodeId))
      outgoingCount == Cardinality(RelaysOutOf(D, nodeId))
      sourceNodeId == LET hits == {i \in DOMAIN relayEdges :
                                     D.relationships[relayEdges[i]].target_id = nodeId}
                      IN D.relationships[relayEdges[Max(hits)]].source_id
      targetNodeId == LET hits == {i \in DOMAIN relayEdges :
                                     D.relationships[relayEdges[i]].source_id = nodeId}
                      IN D.relationships[relayEdges[Max(hits)]].target_id
  IN IF Len(relayEdges) # 2 THEN 1
     ELSE IF incomingCount # 1 \/ outgoingCount # 1 THEN 1
     ELSE (IF sourceNodeId # NULL /\ ~NodeExists(D, sourceNodeId) THEN 1 ELSE 0)
        + (IF targetNodeId # NULL /\ ~NodeExists(D, targetNodeId) THEN 1 ELSE 0)
        + (IF sourceNodeId # NULL /\ targetNodeId # NULL /\ sourceNodeId = targetNodeId
             THEN 1 ELSE 0)

\* step 6: the _relay rows with no RELATIONSHIP_TYPE node at either end
OrphanedRelayEdges(D) ==
  {e \in DOMAIN D.relationships :
     /\ D.relationships[e].type = RELAY
     /\ D.relationships[e].source_id \notin RelationshipNodes(D)
     /\ D.relationships[e].target_id \notin RelationshipNodes(D)}

RECURSIVE SumOfErrors(_, _, _)
SumOfErrors(D, relNodes, asc) ==
  IF relNodes = <<>> THEN 0
  ELSE RelationshipNodeErrors(D, Head(relNodes), asc) + SumOfErrors(D, Tail(relNodes), asc)

\* validateStructuredRelationships: valid, and the number of errors
ValidateStructuredRelationships(D, asc) ==
  LET errors == SumOfErrors(D, Rows(RelationshipNodes(D), asc), asc)
                  + Cardinality(OrphanedRelayEdges(D))
  IN [valid |-> errors = 0, errors |-> errors]

\* C35: in every reachable store and for either row order,
\* validateStructuredRelationships returns valid = true exactly when every
\* RELATIONSHIP_TYPE node has one incoming and one outgoing _relay edge whose
\* outer endpoints are existing, distinct nodes and no _relay edge is
\* unattached to a RELATIONSHIP_TYPE node; otherwise valid = false with at
\* least one error.
C35_ValidExactlyWhenWellFormed ==
  \A asc \in BOOLEAN :
    /\ ValidateStructuredRelationships(db, asc).valid <=>
         /\ \A n \in RelationshipNodes(db) : WellFormedRelationship(db, n)
         /\ OrphanedRelayEdges(db) = {}
    /\ ~ValidateStructuredRelationships(db, asc).valid =>
         ValidateStructuredRelationships(db, asc).errors >= 1

\* a RELATIONSHIP_TYPE node whose incoming _relay edge lost its source to a
\* KEEP_CONNECTED deletion, and the validation reports the store as valid
C35_NullEndpointPassesValidation ==
  /\ \E n \in RelationshipNodes(db) :
       /\ Cardinality(RelaysInto(db, n)) = 1 /\ Cardinality(RelaysOutOf(db, n)) = 1
       /\ \E i \in RelaysInto(db, n) : db.relationships[i].source_id = NULL
  /\ ValidateStructuredRelationships(db, TRUE).valid
  /\ ValidateStructuredRelationships(db, TRUE).errors = 0

-----------------------------------------------------------------------------

\* C36: whenever a top-level call ends with its commit failing because no
\* transaction is active, it resolves, with isInTransaction reset to false and
\* persistData run; whenever its commit fails otherwise, it rejects with
\* isInTransaction reset to false.
C36_BenignCommitFailureResolves ==
  [][\A i \in CallIds :
       (calls[i].pc = "body" /\ calls'[i].pc = "done") =>
         /\ calls'[i].commit = "noTx" =>
              /\ calls'[i].outcome = "fulfilled"
              /\ ~isInTransaction'
              /\ calls'[i].persisted = 1
         /\ calls'[i].commit = "failed" =>
              /\ calls'[i].outcome = "rejected"
              /\ ~isInTransaction']_vars

\* a call whose commit found no transaction active, whose persistData ran and
\* failed, and which rejected with the DatabaseError of the coordinator
C36_RejectedAfterBenignCommitFailure ==
  \E i \in CallIds :
    /\ calls[i].commit = "noTx" /\ calls[i].persisted = 1
    /\ calls[i].threw = "none"
    /\ calls[i].outcome = "rejected" /\ calls[i].err.kind = "DatabaseError"

-----------------------------------------------------------------------------

\* C37: at every step that ends a call of transaction(), persistData has run
\* once, with isInTransaction reset, if the call's commit succeeded, and has
\* not run if the call rolled back or ran directly inside an active
\* transaction; the hook never runs at another step.
C37_PersistOncePerCommit ==
  [][\A i \in CallIds :
       IF calls[i].pc # "done" /\ calls'[i].pc = "done"
         THEN /\ calls'[i].commit = "ok" =>
                   (calls'[i].persisted = 1 /\ ~isInTransaction')
              /\ (calls'[i].rollback # "none" \/ calls'[i].path # "top") =>
                   calls'[i].persisted = 0
         ELSE calls'[i].persisted = calls[i].persisted]_vars

\* one call committed and persisted once, another threw, was rolled back and
\* did not persist
C37_PersistedAndRolledBack ==
  \E i \in CallIds, j \in CallIds :
    /\ calls[i].path = "top" /\ calls[i].commit = "ok" /\ calls[i].wrote
    /\ calls[i].persisted = 1 /\ calls[i].outcome = "fulfilled"
    /\ calls[j].path = "top" /\ calls[j].rollback = "ok" /\ calls[j].persisted = 0

-----------------------------------------------------------------------------

\* the nodes other than id that have the label id has in D
OthersWithLabelOf(D, id) ==
  {m \in DOMAIN D.nodes : m # id /\ D.nodes[m].label = D.nodes[id].label}

\* C38: in every reachable store, after updateNode relabels a node away from
\* its label L, if exactly one other node has label L then that node has
\* is_independent = true.
C38_SoleHolderBecomesIndependent ==
  \A n \in DOMAIN db.nodes, label \in NodeLabels :
    (label # db.nodes[n].label /\ Cardinality(OthersWithLabelOf(db, n)) = 1) =>
      \A m \in OthersWithLabelOf(db, n) :
        /\ UpdateNodeOperation(db, n, [NoNodeUpdates EXCEPT !.label = Some(label)]).err = "none"
        /\ UpdateNodeOperation(db, n, [NoNodeUpdates EXCEPT !.label = Some(label)])
             .db.nodes[m].is_independent

\* the independent holder of label "X" is relabelled to "Y": the node left
\* alone with "X" stays non-independent
C38_SoleHolderNotIndependent ==
  \E n \in DOMAIN db.nodes, m \in DOMAIN db.nodes :
    /\ OthersWithLabelOf(db, n) = {m}
    /\ db.nodes[n].label = "X" /\ db.nodes[n].is_independent
    /\ ~db.nodes[m].is_independent
    /\ UpdateNodeOperation(db, n, [NoNodeUpdates EXCEPT !.label = Some("Y")]).err = "none"
    /\ UpdateNodeOperation(db, n, [NoNodeUpdates EXCEPT !.label = Some("Y")]).db.nodes[n].label = "Y"
    /\ UpdateNodeOperation(db, n, [NoNodeUpdates EXCEPT !.label = Some("Y")]).db.nodes[m].label = "X"
    /\ ~UpdateNodeOperation(db, n, [NoNodeUpdates EXCEPT !.label = Some("Y")]).db.nodes[m].is_independent

-----------------------------------------------------------------------------

\* C39: in every reachable store, every edge's non-null source_id and
\* target_id is the id of an existing node.
C39_EndpointsExistOrNull ==
  \A e \in DOMAIN db.relationships :
    /\ db.relationships[e].source_id # NULL => NodeExists(db, db.relationships[e].source_id)
    /\ db.relationships[e].target_id # NULL => NodeExists(db, db.relationships[e].target_id)

\* an edge that is not a _relay edge and whose target is the id of a deleted node
C39_EdgeToDeletedNode ==
  \E e \in DOMAIN db.relationships :
    /\ db.relationships[e].type # RELAY
    /\ NodeExists(db, db.relationships[e].source_id)
    /\ db.relationships[e].target_id \in 1..MaxNodeIds
    /\ ~NodeExists(db, db.relationships[e].target_id)

-----------------------------------------------------------------------------

\* C40: in every reachable store, every node_properties row belongs to an
\* existing node and every relationship_properties row belongs to an existing
\* edge.
C40_PropertiesHaveOwners ==
  /\ \A p \in db.node_properties : NodeExists(db, p[1])
  /\ \A p \in db.relationship_properties : EdgeExists(db, p[1])

\* three nodes and three edges were created and all but one node and one edge
\* deleted: the properties that remain include those of the node and of the
\* edge that remain
C40_OwnersDeletedWithProperties ==
  /\ db.nextNodeId > MaxPlainNodes + 1
  /\ db.nextEdgeId > EdgeIdBase + MaxEdgeIds
  /\ Cardinality(DOMAIN db.nodes) = 1 /\ Cardinality(DOMAIN db.relationships) = 1
  /\ \E p \in db.node_properties : p[1] \in DOMAIN db.nodes
  /\ \E p \in db.relationship_properties : p[1] \in DOMAIN db.relationships

====
